---- MODULE Spec2Model ----
(***************************************************************************)
(* Model of the DataDebat ETL pipeline: the transformer of                 *)
(* src/src/etl/transform.py (ANDebatsTransformer), the writer of           *)
(* src/src/db/es_connection.py (ESConnection.bulk_index) and the per-file  *)
(* driver of src/src/etl/load_batch.py (BatchLoader.process_single_file).  *)
(*                                                                         *)
(* Texts are sequences of tokens: a token is a character (".", " ", "\n")  *)
(* or a word no pattern of the code looks inside ("M", "Mme", "dupont").   *)
(* Python dicts are functions from key strings to values.                  *)
(***************************************************************************)
EXTENDS Integers, Sequences, FiniteSets, TLC

VARIABLES
    root,        \* root element of the XML of the archive, NoRoot if it has none
    metadata,    \* dict returned by extract_metadata for the document
    documents,   \* list of records returned by the transformer
    pc,          \* position of the running operation
    files,       \* the intermediate JSON files: path -> list of records
    clock,       \* datetime.now()
    es,          \* the index: _id -> _source of every document written
    searchable,  \* the index as searches and counts see it (at the last refresh)
    nextAuto,    \* number of the next _id the store generates itself
    malformed,   \* the para_ids whose records the mapping of the index rejects
    replace_existing, batch_size,   \* arguments of bulk_index
    pos,         \* bulk_index: position in documents of the next action to send
    success,     \* bulk_index: number of actions the store accepted
    errors,      \* bulk_index: the error items helpers.bulk collected
    skipped,     \* bulk_index: errors reported as "already existing"
    real_errors, \* bulk_index: errors reported as indexing errors
    callers,     \* the pipeline entry points called so far, in order
    esAtCall,    \* the index when the running bulk_index was called
    esAfterFirst,\* the index when the first pipeline run returned
    returns,     \* number of pipeline runs that returned normally
    outcome,     \* what the store did with each action sent in this call
    taz_file,    \* process_single_file: the name of the archive file, no suffix
    skip_existing, index_to_es,     \* arguments of process_single_file
    result,      \* process_single_file: the result dict
    count_raised,\* process_single_file: the count query of the pre-check raised
    base_dir,    \* run: the archive files below base_dir, sorted
    taz_files,   \* run: the files selected for processing
    jobs,        \* run: the state and the result of each selected file
    stats,       \* run: self.stats
    report,      \* the content of the report file
    reportAtCall,\* the content of the report file when run was called
    run_pc,      \* run: idle, processing or done
    parallel, max_workers, years,   \* arguments of run and of the loader
    runs_called, \* number of calls of run so far
    date_str,    \* parse_date: the argument
    date_iso,    \* parse_date: the value returned
    taz,         \* the archive file: its members and whether it can be read
    save_transform_file  \* argument of process_directory and transform_year

tvars == <<root, metadata>>
xvars == <<date_str, date_iso, taz, save_transform_file>>
bvars == <<pos, success, errors, skipped, real_errors>>
svars == <<es, searchable, nextAuto>>
hvars == <<callers, esAtCall, esAfterFirst, returns, outcome>>
avars == <<malformed, replace_existing, batch_size>>
pvars == <<taz_file, skip_existing, index_to_es, result, count_raised>>
rvars == <<base_dir, taz_files, jobs, stats, report, reportAtCall, run_pc,
          parallel, max_workers, years, runs_called>>

vars == <<root, metadata, documents, pc, files, clock, es, searchable, nextAuto,
          malformed, replace_existing, batch_size, pos, success, errors, skipped,
          real_errors, callers, esAtCall, esAfterFirst, returns, outcome,
          taz_file, skip_existing, index_to_es, result, count_raised,
          base_dir, taz_files, jobs, stats, report, reportAtCall, run_pc,
          parallel, max_workers, years, runs_called, date_str, date_iso, taz,
          save_transform_file>>

----------------------------------------------------------------------------
(* Bounds of the model                                                     *)

MaxNodes == 5
MaxDepth == 2
MaxParas == 3
MaxLoadParas == 3
MaxCalls == 2
MaxRunFiles == 2
MaxRuns == 2
MaxDateParts == 5

----------------------------------------------------------------------------
(* Program constants                                                       *)

\* bulk_index(documents, batch_size=500, ...)
DefaultBatchSize == 500

----------------------------------------------------------------------------
(* Python values                                                           *)

\* None where a text is expected (orateur_nom without Orateur element)
NoneText == <<"None">>
\* None where a string is expected (orateur_fonction, absent attribute)
NoneStr == "None"

\* truthiness of a text: None and "" are false
Truthy(t) == t # NoneText /\ t # <<>>

\* dict.get(key, default)
Get(d, k, default) == IF k \in DOMAIN d THEN d[k] ELSE default

\* d[k] = v on a copy of d
Put(d, k, v) == (k :> v) @@ d

----------------------------------------------------------------------------
(* Text primitives                                                         *)

IsSpace(c) == c \in {" ", "\n"}

\* str.lower() / re.IGNORECASE on the tokens of the model
Lower(c) ==
    CASE c = "M" -> "m"
      [] c = "Mme" -> "mme"
      [] c = "Dupont" -> "dupont"
      [] c = "Président" -> "président"
      [] OTHER -> c

Drop(s, n) == SubSeq(s, n + 1, Len(s))

\* first position >= i of s that holds no whitespace (Len(s) + 1 if none)
SkipSpaces(s, i) ==
    CHOOSE j \in i..(Len(s) + 1) :
        /\ \A k \in i..(j - 1) : IsSpace(s[k])
        /\ (j = Len(s) + 1 \/ ~IsSpace(s[j]))

\* last position <= i of s that holds no whitespace (0 if none)
SkipSpacesBack(s, i) ==
    CHOOSE j \in 0..i :
        /\ \A k \in (j + 1)..i : IsSpace(s[k])
        /\ (j = 0 \/ ~IsSpace(s[j]))

\* str.strip()
Strip(s) ==
    LET a == SkipSpaces(s, 1)
        b == SkipSpacesBack(s, Len(s))
    IN  IF a > b THEN <<>> ELSE SubSeq(s, a, b)

\* " ".join(texts)
RECURSIVE JoinSpace(_)
JoinSpace(texts) ==
    IF texts = <<>> THEN <<>>
    ELSE IF Len(texts) = 1 THEN texts[1]
    ELSE texts[1] \o <<" ">> \o JoinSpace(Tail(texts))

\* re.sub(r"\s+", " ", text): every run of whitespace becomes one space
RECURSIVE CollapseSpaces(_)
CollapseSpaces(s) ==
    IF s = <<>> THEN <<>>
    ELSE IF IsSpace(s[1])
         THEN <<" ">> \o CollapseSpaces(Drop(s, SkipSpaces(s, 1) - 1))
         ELSE <<s[1]>> \o CollapseSpaces(Tail(s))

clean_text(text) ==
    IF ~Truthy(text) THEN <<>> ELSE Strip(CollapseSpaces(text))

----------------------------------------------------------------------------
(* XML elements (xml.etree.ElementTree): tag, attributes, text, children   *)
(* in document order, and the tail text that follows the element           *)

Elem(tag, attrib, text, children, tail) ==
    [tag |-> tag, attrib |-> attrib, text |-> text,
     children |-> children, tail |-> tail]

\* the attributes the code reads, None for an attribute the element lacks
Attrib(idsyceron, ident) == [idsyceron |-> idsyceron, Ident |-> ident]

NoAttrib == Attrib(NoneStr, NoneStr)

\* the empty dict
EmptyDict == <<>>

\* elem.findall("./tag")
FindAllChildren(elem, tag) == SelectSeq(elem.children, LAMBDA c : c.tag = tag)

\* elem.findall(".//tag"): the descendants with that tag, in document order
RECURSIVE DescendantsOf(_, _)
DescendantsOf(children, tag) ==
    IF children = <<>> THEN <<>>
    ELSE LET c == Head(children)
         IN  (IF c.tag = tag THEN <<c>> ELSE <<>>)
             \o DescendantsOf(c.children, tag)
             \o DescendantsOf(Tail(children), tag)

FindAll(elem, tag) == DescendantsOf(elem.children, tag)

----------------------------------------------------------------------------
(* ANDebatsTransformer                                                     *)

\* does text start with the tokens of prefix, ignoring case or not
StartsWith(text, prefix, ignorecase) ==
    /\ Len(text) >= Len(prefix)
    /\ \A i \in 1..Len(prefix) :
          IF ignorecase THEN Lower(text[i]) = Lower(prefix[i])
          ELSE text[i] = prefix[i]

\* re.sub(rf"^{re.escape(orateur_nom)}\.?\s*", "", text, flags=re.IGNORECASE)
SubSpeakerName(text, orateur_nom) ==
    IF StartsWith(text, orateur_nom, TRUE)
    THEN LET i == Len(orateur_nom) + 1
             j == IF i <= Len(text) /\ text[i] = "." THEN i + 1 ELSE i
         IN  Drop(text, SkipSpaces(text, j) - 1)
    ELSE text

\* number of tokens matched by (M\.|Mme|Mlle) at the start of text, 0 if none
TitleLen(text) ==
    IF StartsWith(text, <<"M", ".">>, FALSE) THEN 2
    ELSE IF StartsWith(text, <<"Mme">>, FALSE) THEN 1
    ELSE IF StartsWith(text, <<"Mlle">>, FALSE) THEN 1
    ELSE 0

\* re.sub(r"^(M\.|Mme|Mlle)\.?\s+[^.]+\.\s*", "", text)
SubGenericSpeaker(text) ==
    LET t == TitleLen(text)
        i == t + 1
        j == IF i <= Len(text) /\ text[i] = "." THEN i + 1 ELSE i
        \* \s+ takes text[j]; [^.]+ needs one more token before the period
        dots == {p \in (j + 1)..Len(text) : text[p] = "."}
        p == CHOOSE q \in dots : \A r \in dots : q <= r
    IN  IF /\ t > 0
           /\ j <= Len(text)
           /\ IsSpace(text[j])
           /\ dots # {}
           /\ p >= j + 2
        THEN Drop(text, SkipSpaces(text, p + 1) - 1)
        ELSE text

remove_speaker_prefix(text, orateur_nom) ==
    IF ~Truthy(text) THEN <<>>
    ELSE Strip(SubGenericSpeaker(
             IF Truthy(orateur_nom) THEN SubSpeakerName(text, orateur_nom)
             ELSE text))

RECURSIVE extract_text_recursive(_)
RECURSIVE ChildTexts(_)
\* the loop body of extract_text_recursive over the children of an element
ChildTexts(children) ==
    IF children = <<>> THEN <<>>
    ELSE LET child == Head(children)
         IN  <<extract_text_recursive(child)>>
             \o (IF child.tail # <<>> THEN <<child.tail>> ELSE <<>>)
             \o ChildTexts(Tail(children))

extract_text_recursive(elem) ==
    JoinSpace((IF elem.text # <<>> THEN <<elem.text>> ELSE <<>>)
              \o ChildTexts(elem.children))

\* "word" in nom_lower
Contains(nom, word) == \E i \in 1..Len(nom) : Lower(nom[i]) = word

extract_orateur(para_elem) ==
    LET orateurs == FindAll(para_elem, "Orateur")
        noms == IF orateurs = <<>> THEN <<>>
                ELSE FindAllChildren(orateurs[1], "Nom")
        info == IF noms = <<>> THEN EmptyDict
                ELSE Put(EmptyDict, "nom", clean_text(noms[1].text))
    IN  IF Truthy(Get(info, "nom", NoneText))
        THEN Put(info, "fonction",
                 IF Contains(info["nom"], "président") THEN "Président"
                 ELSE IF Contains(info["nom"], "ministre") THEN "Ministre"
                 ELSE IF Contains(info["nom"], "secrétaire") THEN "Secrétaire"
                 ELSE "Député")
        ELSE info

\* Cas 2 of _extract_paragraphs: the record of a new paragraph
NewParaData(para, base_data, now) ==
    LET orateur_info == extract_orateur(para)
        nom == Get(orateur_info, "nom", NoneText)
    IN  Put(Put(Put(Put(Put(Put(base_data,
            "para_id", para.attrib.idsyceron),
            "orateur_nom", nom),
            "orateur_fonction", Get(orateur_info, "fonction", NoneStr)),
            "extraction_timestamp", now),
            "vote_present", FALSE),
            "texte", remove_speaker_prefix(extract_text_recursive(para), nom))

\* a continuation appended as it is in the markup
ContinuationTextUnstripped(para, last_para_data) ==
    <<" ">> \o Strip(extract_text_recursive(para))

\* Cas 1 of _extract_paragraphs: the text appended to the last record
ContinuationText(para, last_para_data) ==
    <<" ">> \o remove_speaker_prefix(extract_text_recursive(para),
                                     Get(last_para_data, "orateur_nom", NoneText))

\* the loop when a node without identifier makes it forget the last record
ParaStepForgets(st, para, base_data, now) ==
    IF para.attrib.idsyceron = NoneStr THEN [st EXCEPT !.last = 0]
    ELSE IF /\ st.last # 0
            /\ para.attrib.idsyceron = st.documents[st.last]["para_id"]
         THEN [st EXCEPT !.documents[st.last] =
                  Put(@, "texte", @["texte"] \o ContinuationText(para, @))]
         ELSE [documents |-> Append(st.documents, NewParaData(para, base_data, now)),
               last |-> Len(st.documents) + 1]

\* the loop with one dict shared by the records instead of a copy for each:
\* a continuation reaches the text of all of them
ParaStepShared(st, para, base_data, now) ==
    IF para.attrib.idsyceron = NoneStr THEN st
    ELSE IF /\ st.last # 0
            /\ para.attrib.idsyceron = st.documents[st.last]["para_id"]
         THEN [st EXCEPT !.documents =
                  [k \in 1..Len(@) |->
                      Put(@[k], "texte",
                          @[k]["texte"] \o ContinuationText(para, @[st.last]))]]
         ELSE [documents |-> Append(st.documents, NewParaData(para, base_data, now)),
               last |-> Len(st.documents) + 1]

\* one iteration of the loop of _extract_paragraphs; st.last is the index in
\* st.documents of last_para_data, 0 when it is None
ParaStep(st, para, base_data, now) ==
    IF para.attrib.idsyceron = NoneStr THEN st
    ELSE IF /\ st.last # 0
            /\ para.attrib.idsyceron = st.documents[st.last]["para_id"]
         THEN [st EXCEPT !.documents[st.last] =
                  Put(@, "texte", @["texte"] \o ContinuationText(para, @))]
         ELSE [documents |-> Append(st.documents, NewParaData(para, base_data, now)),
               last |-> Len(st.documents) + 1]

RECURSIVE FoldParas(_, _, _, _)
FoldParas(paras, st, base_data, now) ==
    IF paras = <<>> THEN st
    ELSE FoldParas(Tail(paras), ParaStep(st, Head(paras), base_data, now),
                   base_data, now)

\* the paragraphs of the element and of everything nested in it
_extract_paragraphs_nested(parent_elem, base_data, now) ==
    FoldParas(FindAll(parent_elem, "Para"),
              [documents |-> <<>>, last |-> 0], base_data, now).documents

_extract_paragraphs(parent_elem, base_data, now) ==
    FoldParas(FindAllChildren(parent_elem, "Para"),
              [documents |-> <<>>, last |-> 0], base_data, now).documents

\* section_data of extract_sections: the metadata overlaid with id and title
SectionData(section, meta) ==
    LET titres == FindAllChildren(section, "TitreStruct")
        intitules == IF titres = <<>> THEN <<>> ELSE FindAll(titres[1], "Intitule")
        withId == IF titres = <<>> THEN meta
                  ELSE Put(meta, "section_id",
                           IF titres[1].attrib.Ident = NoneStr THEN ""
                           ELSE titres[1].attrib.Ident)
    IN  IF intitules = <<>> THEN withId
        ELSE Put(withId, "section_titre",
                 clean_text(extract_text_recursive(intitules[1])))

\* sous_section_data of extract_sections
SousSectionData(sous_section, section_data) ==
    LET titres == FindAllChildren(sous_section, "TitreStruct")
        intitules == IF titres = <<>> THEN <<>> ELSE FindAll(titres[1], "Intitule")
    IN  IF intitules = <<>> THEN section_data
        ELSE Put(section_data, "sous_section_titre",
                 clean_text(extract_text_recursive(intitules[1])))

RECURSIVE ExtendSousSections(_, _, _)
ExtendSousSections(sous_sections, section_data, now) ==
    IF sous_sections = <<>> THEN <<>>
    ELSE _extract_paragraphs(Head(sous_sections),
                             SousSectionData(Head(sous_sections), section_data), now)
         \o ExtendSousSections(Tail(sous_sections), section_data, now)

\* the body of the loop of extract_sections for one Section element
SectionDocuments(section, meta, now) ==
    LET section_data == SectionData(section, meta)
        sous_sections == FindAllChildren(section, "SousSection1")
                         \o FindAllChildren(section, "SousSection2")
    IN  IF sous_sections # <<>>
        THEN ExtendSousSections(sous_sections, section_data, now)
        ELSE _extract_paragraphs(section, section_data, now)

RECURSIVE ExtendSections(_, _, _)
ExtendSections(sections, meta, now) ==
    IF sections = <<>> THEN <<>>
    ELSE SectionDocuments(Head(sections), meta, now)
         \o ExtendSections(Tail(sections), meta, now)

extract_sections(rootElem, meta, now) ==
    ExtendSections(FindAll(rootElem, "Section"), meta, now)

----------------------------------------------------------------------------
(* Input documents                                                         *)

Intitule(text) == Elem("Intitule", NoAttrib, text, <<>>, <<>>)

TitreStruct(ident, text) ==
    Elem("TitreStruct", Attrib(NoneStr, ident), <<>>, <<Intitule(text)>>, <<>>)

Nom(text) == Elem("Nom", NoAttrib, text, <<>>, <<>>)

\* <Orateur><Nom>text</Nom></Orateur>tail
Orateur(text, tail) == Elem("Orateur", NoAttrib, <<>>, <<Nom(text)>>, tail)

\* <Para idsyceron="id">text children</Para>
Para(id, text, children) ==
    Elem("Para", Attrib(id, NoneStr), text, children, <<>>)

\* <Para>text children</Para>: a paragraph without identifier
ParaNoId(text, children) == Elem("Para", NoAttrib, text, children, <<>>)

\* <Section>, <SousSection1> or <SousSection2> with its title and children
Container(tag, ident, children) ==
    Elem(tag, NoAttrib, <<>>,
         <<TitreStruct(ident, <<"titre", "\n", ident>>)>> \o children, <<>>)

ContainerTags == {"Section", "SousSection1", "SousSection2"}

RootElem(children) == Elem("CompteRendu", NoAttrib, <<>>, children, <<>>)

\* paragraphs of the documents that vary in structure
StructParas ==
    { Para("p1", <<"oui">>, <<>>), Para("p1", <<>>, <<>>), Para("p2", <<"non">>, <<>>) }

\* the sequences of nodes of n paragraphs and containers in all, with
\* containers nested at most d deep; every title is "t" until Relabel
RECURSIVE Forests(_, _)
RECURSIVE NodesOfSize(_, _)
RECURSIVE ForestsFrom(_, _, _)
\* those whose first node has at least k nodes
ForestsFrom(n, d, k) ==
    IF k > n THEN {}
    ELSE {<<node>> \o rest : node \in NodesOfSize(k, d), rest \in Forests(n - k, d)}
         \cup ForestsFrom(n, d, k + 1)
NodesOfSize(k, d) ==
    (IF k = 1 THEN StructParas ELSE {})
    \cup (IF d > 0
          THEN {Container(t, "t", f) : t \in ContainerTags, f \in Forests(k - 1, d - 1)}
          ELSE {})

Forests(n, d) ==
    IF n = 0 THEN {<<>>}
    ELSE ForestsFrom(n, d, 1)

\* the sequences of top-level sections of n nodes in all, the first of k nodes
RECURSIVE SectionForests(_)
SectionForestsFrom(n, k) ==
    {<<Container("Section", "t", f)>> \o rest :
        f \in Forests(k - 1, MaxDepth - 1), rest \in SectionForests(n - k)}

RECURSIVE SectionForestsFromUp(_, _)
SectionForestsFromUp(n, k) ==
    IF k > n THEN {}
    ELSE SectionForestsFrom(n, k) \cup SectionForestsFromUp(n, k + 1)

SectionForests(n) ==
    IF n = 0 THEN {<<>>} ELSE SectionForestsFromUp(n, 1)

\* the titles given to the containers of a document, in document order
IdentNames == <<"t1", "t2", "t3", "t4", "t5", "t6", "t7", "t8">>

\* the nodes with the k-th container of the document (counting from next) titled
\* IdentNames[k]: [nodes, next]
RECURSIVE Relabel(_, _)
Relabel(nodes, next) ==
    IF nodes = <<>> THEN [nodes |-> <<>>, next |-> next]
    ELSE LET c == Head(nodes)
             inner == Relabel(Tail(c.children), next + 1)
             first == IF c.tag \in ContainerTags
                      THEN [node |-> Container(c.tag, IdentNames[next], inner.nodes),
                            next |-> inner.next]
                      ELSE [node |-> c, next |-> next]
             rest == Relabel(Tail(nodes), first.next)
         IN  [nodes |-> <<first.node>> \o rest.nodes, next |-> rest.next]

\* the documents of n nodes whose first section has k nodes
StructRoots(n, k) ==
    {RootElem(Relabel(f, 1).nodes) : f \in SectionForestsFrom(n, k)}

\* the name of the speaker as the markup gives it, and its echoes in the text
NomDupont == <<"M", ".", " ", "Dupont", ".">>

TextContents ==
    { [text |-> <<"oui">>, children |-> <<>>],
      [text |-> <<>>, children |-> <<>>],
      [text |-> <<>>, children |-> <<Orateur(NomDupont, <<"oui", ".">>)>>],
      [text |-> <<"\n">>, children |-> <<Orateur(NomDupont, <<"oui", ".">>)>>],
      [text |-> <<"M", ".", " ", "Dupont", ".", " ", "non">>, children |-> <<>>],
      [text |-> <<"m", ".", " ", "dupont", ".", "\n", "si", ".">>, children |-> <<>>],
      [text |-> <<"Mme", " ", "la", " ", "ministre", ".", " ", "oui">>, children |-> <<>>],
      [text |-> <<>>,
       children |-> <<Orateur(NomDupont, <<" ", "Mme", " ", "la", " ", "ministre",
                                           ".", " ", "oui">>)>>] }

TextParas ==
    {Para(id, c.text, c.children) : id \in {"p1", "p2"}, c \in TextContents}
    \cup {ParaNoId(<<"oui">>, <<>>)}

RECURSIVE SeqsUpTo(_, _)
SeqsUpTo(S, n) ==
    IF n = 0 THEN {<<>>}
    ELSE {<<>>} \cup {<<x>> \o r : x \in S, r \in SeqsUpTo(S, n - 1)}

\* one section holding up to MaxParas paragraphs that vary in text
TextRoots(n) ==
    { RootElem(<<Container("Section", "t1", paras)>>) :
          paras \in SeqsUpTo(TextParas, n) }

\* the dict extract_metadata returns for the document
Metadata(annee, numero) ==
    [publication_numero |-> numero, annee |-> annee, mois |-> 10,
     date_seance |-> <<"2022", "-", "10", "-", "04">>]

----------------------------------------------------------------------------
(* The archive file: a .taz that holds a .tar that holds the XML           *)

\* name.endswith(suffix), name.startswith(prefix) on a name given as its
\* parts
EndsWith(name, suffix) == name # <<>> /\ name[Len(name)] = suffix
StartsWithPart(name, prefix) == name # <<>> /\ name[1] = prefix

\* root is None: the archive could not be unpacked or holds no XML
NoRoot == Elem("None", NoAttrib, <<>>, <<>>, <<>>)

\* the tree extract_xml_from_taz returns without any check
extract_xml_from_taz_unchecked(archive, tree) == tree
\* extract_xml_from_taz(taz_path): the tree of the payload, or NoRoot for
\* (None, ""); tree is what ET.fromstring gives when the payload parses
extract_xml_from_taz(archive, tree) ==
    LET tars == SelectSeq(archive.members, LAMBDA m : EndsWith(m, ".tar"))
        xmls == SelectSeq(archive.tar_members,
                          LAMBDA m : StartsWithPart(m, "CRI_") /\ EndsWith(m, ".xml"))
    IN  IF ~archive.opens THEN NoRoot
        ELSE IF tars = <<>> THEN NoRoot
        ELSE IF ~archive.tar_opens THEN NoRoot
        ELSE IF xmls = <<>> THEN NoRoot
        ELSE IF ~archive.parses THEN NoRoot
        ELSE tree

\* an archive as the downloader leaves it
WholeArchive ==
    [opens |-> TRUE, members |-> <<<<"AN_2022001", ".tar">>>>,
     tar_opens |-> TRUE,
     tar_members |-> <<<<"notes", ".txt">>, <<"CRI_", "20220001", ".xml">>>>,
     parses |-> TRUE]

\* the archives that give no tree
BrokenArchives ==
    { [WholeArchive EXCEPT !.opens = FALSE],
      [WholeArchive EXCEPT !.members = <<>>],
      [WholeArchive EXCEPT !.members = <<<<"AN_2022001", ".txt">>>>],
      [WholeArchive EXCEPT !.tar_opens = FALSE],
      [WholeArchive EXCEPT !.tar_members = <<>>],
      [WholeArchive EXCEPT !.tar_members = <<<<"notes", ".xml">>,
                                             <<"CRI_", "20220001", ".txt">>>>],
      [WholeArchive EXCEPT !.parses = FALSE] }

----------------------------------------------------------------------------
(* process_taz_file and the intermediate file                              *)

\* the record save_documents_to_file keeps of a document
FilteredDoc(doc) ==
    [fonction           |-> Get(doc, "orateur_fonction", "N/A"),
     para_id            |-> Get(doc, "para_id", ""),
     orateur_nom        |-> Get(doc, "orateur_nom", "N/A"),
     texte              |-> Get(doc, "texte", ""),
     section_titre      |-> Get(doc, "section_titre", "N/A"),
     sous_section_titre |-> Get(doc, "sous_section_titre", "N/A"),
     section_id         |-> Get(doc, "section_id", "N/A")]

\* the files after save_documents_to_file(documents, output_file, ...)
save_documents_to_file(fs, docs, output_file, save_transform) ==
    LET filtered_docs == [i \in 1..Len(docs) |-> FilteredDoc(docs[i])]
        existing_docs == IF output_file \in DOMAIN fs /\ save_transform
                         THEN fs[output_file] ELSE <<>>
        all_docs == IF save_transform
                    THEN existing_docs \o filtered_docs ELSE filtered_docs
    IN  Put(fs, output_file, all_docs)

\* an archive of one section with one paragraph
OneParaRoot(id) ==
    RootElem(<<Container("Section", "t1", <<Para(id, <<"oui">>, <<>>)>>)>>)

\* the documents in the archives of a batch run: <<tree, metadata>>
RunArchives ==
    {<<OneParaRoot("p1"), Metadata(2022, 1)>>,
     <<OneParaRoot("p2"), Metadata(2022, 2)>>,
     <<OneParaRoot("p1"), Metadata(2022, 2)>>}

\* the readings of the clock during MaxRuns runs over MaxRunFiles files
RunClocks == 1..(1 + MaxRuns * (MaxRunFiles + 2))

\* extract_sections on the archives of a batch run, evaluated once
SectionsOfRunArchives ==
    [k \in RunArchives \X RunClocks |->
        extract_sections(k[1][1], k[1][2], k[2])] @@ <<>>

\* extract_sections(root, metadata) at the time now
ExtractedSections(rootElem, meta, now) ==
    IF <<<<rootElem, meta>>, now>> \in DOMAIN SectionsOfRunArchives
    THEN SectionsOfRunArchives[<<<<rootElem, meta>>, now>>]
    ELSE extract_sections(rootElem, meta, now)

\* process_taz_file: the documents returned and the files left behind
process_taz_file(fs, rootElem, meta, output_dir, save_transform, now) ==
    IF rootElem = NoRoot \/ "raised" \in DOMAIN meta
    THEN [documents |-> <<>>, files |-> fs]
    ELSE LET docs == ExtractedSections(rootElem, meta, now)
             year == Get(meta, "annee", "unknown")
             output_file == <<output_dir, year, Get(meta, "date_seance", "N/A")>>
         IN  [documents |-> docs,
              files |-> save_documents_to_file(fs, docs, output_file,
                                               save_transform)]

----------------------------------------------------------------------------
(* The index and bulk_index                                                *)

\* the _id of a document written with _id = para_id
DocKey(para_id) == [auto |-> 0, id |-> para_id]
\* the n-th _id the store generates for an action that carries none
AutoKey(n) == [auto |-> n, id |-> ""]

\* generate_actions: the action built for one document
GenerateAction(doc, replace) ==
    [source  |-> doc,
     has_id  |-> Get(doc, "para_id", "") # "",
     id      |-> Get(doc, "para_id", ""),
     op_type |-> IF ~replace THEN "create" ELSE "index"]

\* the error item helpers.bulk collects for a rejected action
ErrorItem(action, key, status, type) ==
    [op_type |-> action.op_type, id |-> key, status |-> status, type |-> type]

\* the words of str(e) for an error item
StrOf(e) == {e.op_type, "_id", e.id.id, "status", "error", "type", e.type}

\* the store executes one action of a bulk request;
\* st = [es, nextAuto, success, errors, outcome]
StoreExecute(st, action, bad) ==
    LET key == IF action.has_id THEN DocKey(action.id)
               ELSE AutoKey(st.nextAuto)
    IN  IF Get(action.source, "para_id", "") \in bad
        THEN [st EXCEPT
                !.errors = Append(@, ErrorItem(action, key, 400,
                                               "mapper_parsing_exception")),
                !.outcome = Append(@, "malformed")]
        ELSE IF action.op_type = "create" /\ key \in DOMAIN st.es
        THEN [st EXCEPT
                !.errors = Append(@, ErrorItem(action, key, 409,
                                     "version_conflict_engine_exception")),
                !.outcome = Append(@, "exists")]
        ELSE [st EXCEPT
                !.es = Put(@, key, action.source),
                !.nextAuto = IF action.has_id THEN @ ELSE @ + 1,
                !.success = @ + 1,
                !.outcome = Append(@, "stored")]

\* one chunk of helpers.bulk: the actions of documents[i..j] in order
RECURSIVE SendActions(_, _, _, _, _, _)
SendActions(st, docs, i, j, replace, bad) ==
    IF i > j THEN st
    ELSE SendActions(StoreExecute(st, GenerateAction(docs[i], replace), bad),
                     docs, i + 1, j, replace, bad)

\* raise_on_error=True, the default of helpers.bulk
RaiseOnErrorDefault == TRUE
\* helpers.bulk(..., raise_on_error=False)
RaiseOnError == FALSE

\* no refresh: searches keep seeing what they saw
NoRefresh(index, seen) == seen
\* self.es.indices.refresh(index=...): searches see every document written
Refresh(index, seen) == index

\* 'version_conflict_engine_exception' not in str(e)
IsRealError(e) == "version_conflict_engine_exception" \notin StrOf(e)

\* every error taken for a real one
RealErrorsUnfiltered(errs) == errs
\* real_errors = [e for e in errors if ... not in str(e)]
RealErrors(errs) == SelectSeq(errs, IsRealError)

\* paragraphs of the archives given to the writer
LoadParas ==
    {Para("p1", <<"oui">>, <<>>), Para("p2", <<"non">>, <<>>),
     Para("", <<"oui">>, <<>>)}

\* archives of one section with up to n paragraphs
LoadRoots(n) ==
    { RootElem(<<Container("Section", "t1", paras)>>) :
          paras \in SeqsUpTo(LoadParas, n) }

\* an index that holds p1 since an earlier load
EarlierIndex ==
    LET earlier == RootElem(<<Container("Section", "t1",
                                        <<Para("p1", <<"non">>, <<>>)>>)>>)
    IN  DocKey("p1") :> extract_sections(earlier, Metadata(2022, 1), 0)[1]

\* the chunk sizes bulk_index is called with
BatchSizes == {1, 2, DefaultBatchSize}

----------------------------------------------------------------------------
(* The batch loader: one file                                              *)

\* the decimal digits
Digits == <<"0", "1", "2", "3", "4", "5", "6", "7", "8", "9">>

IsDigit(c) == \E d \in 1..10 : Digits[d] = c

DigitValue(c) == (CHOOSE d \in 1..10 : Digits[d] = c) - 1

\* int(s) raises ValueError
IntFails(s) == s = <<>> \/ \E i \in 1..Len(s) : ~IsDigit(s[i])

\* int(s) for a string of digits
RECURSIVE ParseInt(_)
ParseInt(s) ==
    IF s = <<>> THEN 0
    ELSE 10 * ParseInt(SubSeq(s, 1, Len(s) - 1)) + DigitValue(s[Len(s)])

\* filename[i:j] of Python
Slice(s, i, j) ==
    SubSeq(s, i + 1, IF j < Len(s) THEN j ELSE Len(s))

\* the count query: the searchable documents of a year and publication number
CountQuery(seen, year, num) ==
    Cardinality({k \in DOMAIN seen :
                    /\ Get(seen[k], "annee", NoneStr) = year
                    /\ Get(seen[k], "publication_numero", NoneStr) = num})

\* shortest file name the check goes on with
MinNameLen == 11

\* the name passes the length test and its year and number parse: the count
\* query is sent
CountQueryIssued(filename) ==
    /\ Len(filename) >= MinNameLen
    /\ ~IntFails(Slice(filename, 3, 7))
    /\ ~IntFails(Slice(filename, 7, 10))

\* a pre-check that takes a failed count query for "already indexed"
check_if_already_indexed_closed(filename, seen, count_fails) ==
    /\ CountQueryIssued(filename)
    /\ \/ count_fails
       \/ CountQuery(seen, ParseInt(Slice(filename, 3, 7)),
                     ParseInt(Slice(filename, 7, 10))) > 0

\* check_if_already_indexed(taz_file); count_fails: the count query raises
check_if_already_indexed(filename, seen, count_fails) ==
    IF Len(filename) < MinNameLen THEN FALSE
    ELSE IF IntFails(Slice(filename, 3, 7)) \/ IntFails(Slice(filename, 7, 10))
    THEN FALSE
    ELSE IF count_fails THEN FALSE
    ELSE CountQuery(seen, ParseInt(Slice(filename, 3, 7)),
                    ParseInt(Slice(filename, 7, 10))) > 0

\* the result dict of process_single_file
Result(status, n, error) ==
    [status |-> status, documents |-> n, error |-> error]

\* nom_fichier = f"AN_{annee}{str(i).zfill(3)}.taz" without its suffix
Stem(annee, numero) == <<"A", "N", "_">> \o annee \o numero

\* the names of the archive files given to the loader
TazFiles ==
    {Stem(<<"2", "0", "2", "2">>, <<"0", "0", "1">>),
     Stem(<<"2", "0", "2", "2">>, <<"0", "0", "2">>),
     Stem(<<"2", "0", "2", "2">>, <<"0", "0", "1", "0">>),
     Stem(<<"2", "0", "2", "2">>, <<"0", "0", "2", "b">>),
     Stem(<<"2", "0", "x", "x">>, <<"0", "0", "1", "0">>),
     Stem(<<"2", "0", "2", "2">>, <<>>)}

----------------------------------------------------------------------------
(* The batch loader: a run over a directory                                *)

\* str.isdigit()
IsDigits(s) == s # <<>> /\ \A i \in 1..Len(s) : IsDigit(s[i])

\* an archive file below base_dir: its directory, its name without suffix,
\* the XML it holds and the metadata of that XML
TazPath(dir, stem, rootElem, meta) ==
    [dir |-> dir, stem |-> stem, root |-> rootElem, metadata |-> meta]

\* get_year_from_path(taz_path)
get_year_from_path(taz_path) ==
    IF IsDigits(taz_path.dir) /\ Len(taz_path.dir) = 4 THEN taz_path.dir
    ELSE IF Len(taz_path.stem) >= 9 /\ IsDigits(Slice(taz_path.stem, 3, 7))
    THEN Slice(taz_path.stem, 3, 7)
    ELSE <<"unknown">>

\* by_year.get(year, []) of organize_files_by_year: the files of a year, in
\* the order of the list
FilesOfYear(paths, year) ==
    SelectSeq(paths, LAMBDA f : get_year_from_path(f) = year)

\* [f for year in years_str for f in by_year.get(year, [])]
RECURSIVE FilterByYears(_, _)
FilterByYears(paths, years_str) ==
    IF years_str = <<>> THEN <<>>
    ELSE FilesOfYear(paths, Head(years_str))
             \o FilterByYears(paths, Tail(years_str))

\* the files run processes: all of them unless years is given
SelectedFiles(paths, yrs) ==
    IF yrs # <<>> THEN FilterByYears(paths, yrs) ELSE paths

\* _init_stats()
_init_stats ==
    [total |-> 0, success |-> 0, failed |-> 0, skipped |-> 0,
     documents_indexed |-> 0, start_time |-> 0, end_time |-> 0,
     errors |-> <<>>]

\* statistics that forget the files skipped
_update_stats_unskipped(st, res) ==
    IF res.status = "skipped" THEN st
    ELSE IF res.status = "success"
    THEN [st EXCEPT !.total = @ + 1, !.success = @ + 1,
                    !.documents_indexed = @ + res.documents]
    ELSE [st EXCEPT !.total = @ + 1, !.failed = @ + 1,
                    !.errors = Append(@, [file |-> res.file,
                                          error |-> res.error])]

\* _update_stats(result)
_update_stats(st, res) ==
    LET counted == [st EXCEPT !.total = @ + 1]
    IN  IF res.status = "success"
        THEN [counted EXCEPT !.success = @ + 1,
                             !.documents_indexed = @ + res.documents]
        ELSE IF res.status = "failed"
        THEN [counted EXCEPT !.failed = @ + 1,
                             !.errors = Append(@, [file |-> res.file,
                                                   error |-> res.error])]
        ELSE IF res.status = "skipped"
        THEN [counted EXCEPT !.skipped = @ + 1]
        ELSE counted

\* the result dict with its 'file' entry
FileResult(taz_path, res) == Put(res, "file", <<taz_path.dir, taz_path.stem>>)

\* a result that counts the records the store accepted
FileWrittenCountsAccepted(taz_path, docs, transformed, sent) ==
    [st |-> [transformed EXCEPT !.es = sent.es,
                                !.nextAuto = sent.nextAuto,
                                !.searchable = Refresh(sent.es, @)],
     result |-> FileResult(taz_path, Result("success", sent.success, NoneStr))]

\* process_single_file once bulk_index has returned: sent is what the store
\* made of the actions
FileWritten(taz_path, docs, transformed, sent) ==
    [st |-> [transformed EXCEPT !.es = sent.es,
                                !.nextAuto = sent.nextAuto,
                                !.searchable = Refresh(sent.es, @)],
     result |-> FileResult(taz_path, Result("success", Len(docs), NoneStr))]

\* process_single_file after process_taz_file returned docs and left the
\* state transformed
FileTransformed(taz_path, index, write_fails, bad, docs, transformed) ==
    IF docs = <<>>
    THEN [st |-> transformed,
          result |-> FileResult(taz_path,
                                Result("failed", 0, "Aucun document extrait"))]
    ELSE IF index /\ write_fails
    THEN [st |-> transformed,
          result |-> FileResult(taz_path,
                                Result("failed", 0, "ConnectionError"))]
    ELSE IF index
    THEN FileWritten(taz_path, docs, transformed,
                     SendActions([es |-> transformed.es,
                                  nextAuto |-> transformed.nextAuto,
                                  success |-> 0, errors |-> <<>>,
                                  outcome |-> <<>>],
                                 docs, 1, Len(docs), FALSE, bad))
    ELSE [st |-> transformed,
          result |-> FileResult(taz_path,
                                Result("success", Len(docs), NoneStr))]

\* process_single_file after the pre-check: r is what process_taz_file
\* returned and left behind
FileNotSkipped(taz_path, index, write_fails, bad, st, r) ==
    FileTransformed(taz_path, index, write_fails, bad, r.documents,
                    [st EXCEPT !.files = r.files, !.clock = @ + 1])

\* process_single_file(taz_file, skip_existing, index_to_es) as one step on
\* st = [es, searchable, nextAuto, files, clock]; count_fails: the count
\* query raises; write_fails: the request of bulk_index raises
process_single_file(taz_path, skip, index, count_fails, write_fails, bad, st) ==
    IF skip /\ check_if_already_indexed(taz_path.stem, st.searchable,
                                        count_fails)
    THEN [st |-> st, result |-> FileResult(taz_path,
                                           Result("skipped", 0, NoneStr))]
    ELSE FileNotSkipped(taz_path, index, write_fails, bad, st,
             process_taz_file(st.files, taz_path.root, taz_path.metadata,
                              "transformed", FALSE, st.clock))

\* the report of a run
Report(st) ==
    [start_time |-> st.start_time, end_time |-> st.end_time,
     duration_seconds |-> st.end_time - st.start_time,
     statistics |-> [total |-> st.total, success |-> st.success,
                     failed |-> st.failed, skipped |-> st.skipped,
                     documents_indexed |-> st.documents_indexed],
     errors |-> st.errors]

\* the content of the report file: no file, a file that does not parse, a
\* dict with a 'runs' list, another dict, a list
NoFile == [kind |-> "absent", data |-> <<>>]
Unreadable == [kind |-> "unreadable", data |-> <<>>]
RunsFile(runs) == [kind |-> "runs", data |-> runs]
DictFile(d) == [kind |-> "dict", data |-> <<d>>]
ListFile(l) == [kind |-> "list", data |-> l]

\* existing_runs of save_report
ExistingRuns(file) ==
    IF file.kind \in {"runs", "dict", "list"} THEN file.data ELSE <<>>

\* save_report(): the report file afterwards
save_report(file, st) == RunsFile(Append(ExistingRuns(file), Report(st)))

\* the loop stops at the first failed file
ContinueUnlessFailed(res) == res.status # "failed"
\* the loops over the files have no exit: the next file is always taken
ContinueAfter(res) == TRUE

\* the archive files a directory can hold, in the order of sorted()
RunUniverse ==
    << TazPath(<<"2", "0", "2", "2">>,
               Stem(<<"2", "0", "2", "2">>, <<"0", "0", "1">>),
               OneParaRoot("p1"), Metadata(2022, 1)),
       TazPath(<<"2", "0", "2", "2">>,
               Stem(<<"2", "0", "2", "2">>, <<"0", "0", "2", "0">>),
               OneParaRoot("p2"), Metadata(2022, 2)),
       TazPath(<<"l", "o", "t">>,
               Stem(<<"2", "0", "2", "3">>, <<"0", "0", "1">>),
               NoRoot, Metadata(2023, 1)) >>

\* two archive files that hold a paragraph with the same identifier, the
\* second one from a later publication
SharedIdFiles ==
    << TazPath(<<"2", "0", "2", "2">>,
               Stem(<<"2", "0", "2", "2">>, <<"0", "0", "1">>),
               OneParaRoot("p1"), Metadata(2022, 1)),
       TazPath(<<"2", "0", "2", "2">>,
               Stem(<<"2", "0", "2", "2">>, <<"0", "0", "2">>),
               OneParaRoot("p1"), Metadata(2022, 2)) >>

\* the sub-lists of a list, order kept
RECURSIVE SubLists(_)
SubLists(l) ==
    IF l = <<>> THEN {<<>>}
    ELSE LET rest == SubLists(Tail(l))
         IN  rest \cup {<<Head(l)>> \o r : r \in rest}

\* the listings find_taz_files can return: sorted, at most n files
Listings(n) == {l \in SubLists(RunUniverse) : Len(l) <= n}

\* the values of the years argument of run; <<>> is None
YearFilters ==
    {<<>>, <<<<"2", "0", "2", "2">>>>, <<<<"2", "0", "2", "3">>>>,
     <<<<"1", "9", "9", "9">>>>}

\* the report of an earlier run
EarlierReport ==
    Report([_init_stats EXCEPT !.total = 1, !.success = 1,
                               !.documents_indexed = 1])

\* what the report file holds before the first run
InitialReports ==
    {NoFile, Unreadable, RunsFile(<<EarlierReport>>), DictFile(EarlierReport),
     ListFile(<<EarlierReport>>)}

\* the sizes of the thread pool
WorkerCounts == {1, 2}

\* no run of the batch loader was started
NoRun ==
    /\ base_dir = <<>>
    /\ taz_files = <<>>
    /\ jobs = <<>>
    /\ stats = _init_stats
    /\ report = NoFile
    /\ reportAtCall = NoFile
    /\ run_pc = "idle"
    /\ parallel = FALSE
    /\ max_workers = 1
    /\ years = <<>>
    /\ runs_called = 0

\* parse_date was not called
NoDate ==
    /\ date_str = <<>>
    /\ date_iso = NoneText

----------------------------------------------------------------------------
(* Dates                                                                   *)

\* str.split("-") on a string given as its characters
RECURSIVE Split(_, _)
Split(str, part) ==
    IF str = <<>> THEN <<part>>
    ELSE IF Head(str) = "-" THEN <<part>> \o Split(Tail(str), <<>>)
    ELSE Split(Tail(str), Append(part, Head(str)))

\* str.zfill(2)
zfill2(str) ==
    IF Len(str) >= 2 THEN str
    ELSE IF str = <<>> THEN <<"0", "0">>
    ELSE IF str[1] \in {"+", "-"} THEN <<str[1], "0">>
    ELSE <<"0">> \o str

\* parse_date(date_str); date_str None makes split raise, which is caught
parse_date(str) ==
    IF str = NoneText THEN NoneText
    ELSE LET parts == Split(str, <<>>)
         IN  IF Len(parts) >= 3
             THEN parts[Len(parts)] \o <<"-">> \o zfill2(parts[3])
                  \o <<"-">> \o zfill2(parts[2])
             ELSE NoneText

\* the tokens between the hyphens of the date strings of the model
DateParts ==
    { <<>>, <<"5">>, <<"2", "2">>, <<"0", "5">>, <<"M", "a", "i">>,
      <<"2", "0", "1", "3">>, <<"M", "e", "r", "c", "r", "e", "d", "i">> }

\* the strings of 1 to n tokens joined by hyphens
RECURSIVE DateStrings(_)
DateStrings(n) ==
    IF n = 1 THEN DateParts
    ELSE DateStrings(n - 1)
         \cup {d \o <<"-">> \o t : d \in DateStrings(n - 1), t \in DateParts}

----------------------------------------------------------------------------
(* extract_metadata                                                        *)

\* what stands for the dict when the function raised
RaisedDict(exception) == [raised |-> exception]
Raised(d) == "raised" \in DOMAIN d

\* elem.text: None for an element without text
TextOrNone(elem) == IF elem.text = <<>> THEN NoneText ELSE elem.text

\* metadata[key] = int(meta_elem.find(tag).text) when the element is there
MetaInt(meta_elem, tag, key, meta) ==
    LET found == FindAllChildren(meta_elem, tag)
    IN  IF Raised(meta) \/ found = <<>> THEN meta
        ELSE IF found[1].text = <<>> THEN RaisedDict("TypeError")
        ELSE IF IntFails(found[1].text) THEN RaisedDict("ValueError")
        ELSE Put(meta, key, ParseInt(found[1].text))

\* metadata[key] = self.parse_date(meta_elem.find(tag).text)
MetaDate(meta_elem, tag, key, meta) ==
    LET found == FindAllChildren(meta_elem, tag)
    IN  IF Raised(meta) \/ found = <<>> THEN meta
        ELSE Put(meta, key, parse_date(TextOrNone(found[1])))

\* annee and mois from the parts of date_seance
MetaYearMonth(meta) ==
    IF Raised(meta) \/ ~Truthy(Get(meta, "date_seance", NoneText)) THEN meta
    ELSE LET parts == Split(meta["date_seance"], <<>>)
         IN  IF IntFails(parts[1]) \/ IntFails(parts[2])
             THEN RaisedDict("ValueError")
             ELSE Put(Put(meta, "annee", ParseInt(parts[1])),
                      "mois", ParseInt(parts[2]))

\* metadata[key] = meta_elem.find(tag).text
MetaText(meta_elem, tag, key, meta) ==
    LET found == FindAllChildren(meta_elem, tag)
    IN  IF Raised(meta) \/ found = <<>> THEN meta
        ELSE Put(meta, key, TextOrNone(found[1]))

\* extract_metadata(root): the dict, or RaisedDict when an int() raised
extract_metadata(rootElem) ==
    LET metas == FindAll(rootElem, "Metadonnees")
        meta_elem == metas[1]
    IN  IF metas = <<>> THEN EmptyDict
        ELSE MetaInt(meta_elem, "NumeroPremierePage", "numero_premiere_page",
             MetaInt(meta_elem, "LegislatureNumero", "legislature",
             MetaText(meta_elem, "SessionParlementaire", "session_parlementaire",
             MetaText(meta_elem, "SessionNom", "session_nom",
             MetaYearMonth(
             MetaDate(meta_elem, "DateSeance", "date_seance",
             MetaDate(meta_elem, "DateParution", "date_parution",
             MetaInt(meta_elem, "PublicationNumero", "publication_numero",
                     EmptyDict))))))))

\* <tag>text</tag>
Field(tag, text) == Elem(tag, NoAttrib, text, <<>>, <<>>)

\* a field of the metadata subtree: missing, or with one of the texts
FieldChoices(tag, texts) == {<<>>} \cup {<<Field(tag, t)>> : t \in texts}

\* the texts of a number field: a number, none, not a number
NumberTexts == {<<"1", "5">>, <<>>, <<"a">>}

\* the texts of a date field: a date of the source, none, one token, and
\* three tokens that are no numbers
DateTexts ==
    {<<"M", "e", "r", "c", "r", "e", "d", "i", "-", "2", "2", "-", "0", "5", "-",
       "M", "a", "i", "-", "2", "0", "1", "3">>,
     <<>>,
     <<"M", "a", "i">>,
     <<"M", "a", "i", "-", "M", "a", "i", "-", "M", "a", "i">>}

\* the metadata subtrees of the model
MetaSubtrees ==
    {Elem("Metadonnees", NoAttrib, <<>>, a \o b \o c \o d \o e \o f, <<>>) :
        a \in FieldChoices("PublicationNumero", NumberTexts),
        b \in FieldChoices("DateParution", {<<"M", "a", "i">>}),
        c \in FieldChoices("DateSeance", DateTexts),
        d \in FieldChoices("SessionNom", {<<"ordinaire">>}),
        e \in FieldChoices("LegislatureNumero", NumberTexts),
        f \in FieldChoices("NumeroPremierePage", NumberTexts)}

\* documents of one section with one paragraph, with or without metadata
MetaRoots ==
    {RootElem(<<Container("Section", "t1", <<Para("p1", <<"oui">>, <<>>)>>)>>)}
    \cup {RootElem(<<meta, Container("Section", "t1",
                                     <<Para("p1", <<"oui">>, <<>>)>>)>>) :
             meta \in MetaSubtrees}

----------------------------------------------------------------------------
(* Vote results                                                            *)

\* elem.find(".//parent/child"): the child elements of that tag under the
\* descendants of that tag, in document order
RECURSIVE ChildrenOfEach(_, _)
ChildrenOfEach(parents, tag) ==
    IF parents = <<>> THEN <<>>
    ELSE FindAllChildren(Head(parents), tag) \o ChildrenOfEach(Tail(parents), tag)

FindAllPath(elem, parent, child) == ChildrenOfEach(FindAll(elem, parent), child)

\* the key of vote_data and the element it is read from
VoteFields ==
    << [key |-> "nombre_votants", tag |-> "NombreVotants"],
       [key |-> "nombre_suffrages_exprimes", tag |-> "NombreSuffrageExprime"],
       [key |-> "votes_pour", tag |-> "Pour"],
       [key |-> "votes_contre", tag |-> "Contre"] >>

\* vote_data after the fields from the i-th on were read; int() of a text
\* that is no number raises
RECURSIVE ReadVoteFields(_, _, _)
ReadVoteFields(vote_elem, vote_data, i) ==
    IF i > Len(VoteFields) THEN vote_data
    ELSE LET found == FindAllPath(vote_elem, VoteFields[i].tag, "Valeur")
         IN  IF found = <<>>
             THEN ReadVoteFields(vote_elem, vote_data, i + 1)
             ELSE IF IntFails(found[1].text)
             THEN [raised |-> "ValueError"]
             ELSE ReadVoteFields(vote_elem,
                      Put(vote_data, VoteFields[i].key, ParseInt(found[1].text)),
                      i + 1)

\* extract_vote(section_elem); the empty dict stands for None
extract_vote(section_elem) ==
    LET votes == FindAll(section_elem, "ResultatVote")
    IN  IF votes = <<>> THEN EmptyDict
        ELSE ReadVoteFields(votes[1], [vote_present |-> TRUE], 1)

\* <tag><Valeur>digits</Valeur></tag>
VoteCount(tag, digits) ==
    Elem(tag, NoAttrib, <<>>, <<Elem("Valeur", NoAttrib, digits, <<>>, <<>>)>>, <<>>)

\* the counts a vote result can give, each present or not
VoteCounts(i) ==
    IF i = 1 THEN {<<>>, <<VoteCount("NombreVotants", <<"4", "2">>)>>}
    ELSE IF i = 2 THEN {<<>>, <<VoteCount("NombreSuffrageExprime", <<"4", "0">>)>>}
    ELSE IF i = 3 THEN {<<>>, <<VoteCount("Pour", <<"3", "0">>)>>}
    ELSE {<<>>, <<VoteCount("Contre", <<"1", "0">>)>>}

\* what follows the paragraphs of a section: nothing, or a vote result
VoteSubtrees ==
    {<<>>}
    \cup {<<Elem("ResultatVote", NoAttrib, <<>>, a \o b \o c \o d, <<>>)>> :
             a \in VoteCounts(1), b \in VoteCounts(2),
             c \in VoteCounts(3), d \in VoteCounts(4)}

\* the sections of the documents with votes: one or two paragraphs, then
\* the vote result if there is one
VoteSections(ident, id1, id2) ==
    {Container("Section", ident, paras \o vote) :
        paras \in {<<Para(id1, <<"oui">>, <<>>)>>,
                   <<Para(id1, <<"oui">>, <<>>), Para(id2, <<"non">>, <<>>)>>},
        vote \in VoteSubtrees}

\* documents of one or two sections, with and without vote results
VoteRoots ==
    {RootElem(<<s>>) : s \in VoteSections("t1", "p1", "p2")}
    \cup {RootElem(<<s1, s2>>) : s1 \in VoteSections("t1", "p1", "p2"),
                                 s2 \in VoteSections("t2", "p3", "p4")}

----------------------------------------------------------------------------
(* The transformer applied to a document                                   *)

\* the store, the writer and the callers before anything ran
InitRest ==
    /\ files = <<>>
    /\ clock = 1
    /\ es = <<>>
    /\ searchable = <<>>
    /\ nextAuto = 1
    /\ malformed = {}
    /\ replace_existing = TRUE
    /\ batch_size = DefaultBatchSize
    /\ pos = 1
    /\ success = 0
    /\ errors = <<>>
    /\ skipped = 0
    /\ real_errors = <<>>
    /\ callers = <<>>
    /\ esAtCall = <<>>
    /\ esAfterFirst = <<>>
    /\ returns = 0
    /\ outcome = <<>>
    /\ taz_file = <<>>
    /\ skip_existing = FALSE
    /\ index_to_es = TRUE
    /\ result = [status |-> "none", documents |-> 0, error |-> NoneStr]
    /\ count_raised = FALSE
    /\ NoRun

InitSections ==
    /\ \/ root = RootElem(<<>>)
       \/ \E n \in 1..MaxNodes : \E k \in 1..n : root \in StructRoots(n, k)
    /\ metadata = Metadata(2022, 1)
    /\ documents = <<>>
    /\ pc = "parsed"
    /\ InitRest
    /\ save_transform_file = FALSE
    /\ NoDate
    /\ taz = WholeArchive

InitParagraphs ==
    /\ root \in TextRoots(MaxParas)
    /\ metadata = Metadata(2022, 1)
    /\ documents = <<>>
    /\ pc = "parsed"
    /\ InitRest
    /\ save_transform_file = FALSE
    /\ NoDate
    /\ taz = WholeArchive

\* documents = self.extract_sections(root, metadata)
ExtractSections ==
    /\ pc = "parsed"
    /\ documents' = extract_sections(root, metadata, clock)
    /\ pc' = "extracted"
    /\ UNCHANGED <<rvars, xvars, tvars, files, clock, svars, avars, bvars, hvars, pvars>>

NextTransform == ExtractSections

SpecSections == InitSections /\ [][NextTransform]_vars

SpecParagraphs == InitParagraphs /\ [][NextTransform]_vars

\* the paragraphs of the documents of two containers
ContainerParas ==
    { Para("p1", <<"oui">>, <<>>), Para("p1", <<"non">>, <<>>),
      Para("p2", <<"si">>, <<>>), ParaNoId(<<"oui">>, <<>>) }

\* two sections, or one section with two subsections, each holding up to n
\* paragraphs
ContainerRoots(n) ==
    { RootElem(<<Container("Section", "t1", a), Container("Section", "t2", b)>>) :
          a \in SeqsUpTo(ContainerParas, n), b \in SeqsUpTo(ContainerParas, n) }
    \cup
    { RootElem(<<Container("Section", "t1",
                           <<Container("SousSection1", "t2", a),
                             Container("SousSection2", "t3", b)>>)>>) :
          a \in SeqsUpTo(ContainerParas, n), b \in SeqsUpTo(ContainerParas, n) }

InitContainers ==
    /\ root \in ContainerRoots(MaxParas)
    /\ metadata = Metadata(2022, 1)
    /\ documents = <<>>
    /\ pc = "parsed"
    /\ InitRest
    /\ save_transform_file = FALSE
    /\ NoDate
    /\ taz = WholeArchive

SpecContainers == InitContainers /\ [][NextTransform]_vars

InitVotes ==
    /\ root \in VoteRoots
    /\ metadata = Metadata(2022, 1)
    /\ documents = <<>>
    /\ pc = "parsed"
    /\ InitRest
    /\ save_transform_file = FALSE
    /\ NoDate
    /\ taz = WholeArchive

SpecVotes == InitVotes /\ [][NextTransform]_vars

----------------------------------------------------------------------------
(* parse_date on a date string                                             *)

InitDates ==
    /\ root = NoRoot
    /\ metadata = EmptyDict
    /\ documents = <<>>
    /\ pc = "idle"
    /\ InitRest
    /\ save_transform_file = FALSE
    /\ date_str \in DateStrings(MaxDateParts) \cup {NoneText}
    /\ date_iso = NoneText
    /\ taz = WholeArchive

\* date = self.parse_date(date_str)
ParseDate ==
    /\ pc = "idle"
    /\ date_iso' = parse_date(date_str)
    /\ pc' = "date"
    /\ UNCHANGED <<rvars, tvars, date_str, taz, save_transform_file, documents, files, clock, svars, avars,
                   bvars, hvars, pvars>>

NextDates == ParseDate

SpecDates == InitDates /\ [][NextDates]_vars

----------------------------------------------------------------------------
(* process_taz_file on a document with its metadata subtree                *)

InitMetadata ==
    /\ root \in MetaRoots
    /\ metadata = EmptyDict
    /\ documents = <<>>
    /\ pc = "idle"
    /\ InitRest
    /\ save_transform_file = FALSE
    /\ NoDate
    /\ taz = WholeArchive

\* documents = process_taz_file(taz_path, output_dir) on the tree root:
\* extract_metadata, extract_sections, save_documents_to_file
ProcessTazFile ==
    /\ pc = "idle"
    /\ metadata' = extract_metadata(root)
    /\ LET r == process_taz_file(files, root, metadata', "transformed", FALSE,
                                 clock)
       IN  /\ documents' = r.documents
           /\ files' = r.files
    /\ clock' = clock + 1
    /\ pc' = "processed"
    /\ UNCHANGED <<rvars, xvars, root, svars, avars, bvars, hvars, pvars>>

NextMetadata == ProcessTazFile

SpecMetadata == InitMetadata /\ [][NextMetadata]_vars

----------------------------------------------------------------------------
(* The pipeline of the orchestrator: transform, then load                  *)

InitLoad ==
    /\ root \in LoadRoots(MaxLoadParas)
    /\ metadata = Metadata(2022, 1)
    /\ documents = <<>>
    /\ pc = "idle"
    /\ files = <<>>
    /\ clock = 1
    /\ es \in {<<>>, EarlierIndex}
    /\ searchable = es
    /\ nextAuto = 1
    /\ malformed \in {{}, {"p2"}}
    /\ replace_existing \in BOOLEAN
    /\ batch_size \in BatchSizes
    /\ pos = 1
    /\ success = 0
    /\ errors = <<>>
    /\ skipped = 0
    /\ real_errors = <<>>
    /\ callers = <<>>
    /\ esAtCall = <<>>
    /\ esAfterFirst = <<>>
    /\ returns = 0
    /\ outcome = <<>>
    /\ taz_file = <<>>
    /\ skip_existing = FALSE
    /\ index_to_es = TRUE
    /\ result = [status |-> "none", documents |-> 0, error |-> NoneStr]
    /\ count_raised = FALSE
    /\ NoRun
    /\ NoDate
    /\ save_transform_file = FALSE
    /\ taz = WholeArchive

\* bulk_index is entered: nothing sent yet
EnterBulkIndex ==
    /\ pc' = "bulk"
    /\ pos' = 1
    /\ success' = 0
    /\ errors' = <<>>
    /\ skipped' = 0
    /\ real_errors' = <<>>
    /\ esAtCall' = es
    /\ outcome' = <<>>
    /\ UNCHANGED <<returns, esAfterFirst>>

\* the running pipeline call returns normally
ReturnNormally ==
    /\ pc' = "returned"
    /\ returns' = returns + 1
    /\ esAfterFirst' = IF returns = 0 THEN es ELSE esAfterFirst

\* run_etl_file(taz_path, index_to_es, replace_existing) up to the call of
\* bulk_index: transform_file, then load if there is something to load
RunEtlFile ==
    /\ pc \in {"idle", "returned", "ConnectionError", "BulkIndexError"}
    /\ Len(callers) < MaxCalls
    /\ LET r == process_taz_file(files, root, metadata, "transformed",
                                 FALSE, clock)
       IN  /\ documents' = r.documents
           /\ files' = r.files
           /\ IF index_to_es /\ r.documents # <<>>
              THEN EnterBulkIndex
              ELSE /\ ReturnNormally
                   /\ UNCHANGED <<bvars, esAtCall, outcome>>
    /\ clock' = clock + 1
    /\ callers' = Append(callers, "run_etl_file")
    /\ UNCHANGED <<rvars, xvars, tvars, svars, avars, pvars>>

\* load(documents, replace_existing) on the documents already transformed
Load ==
    /\ pc = "returned"
    /\ Len(callers) < MaxCalls
    /\ documents # <<>>
    /\ EnterBulkIndex
    /\ callers' = Append(callers, "load")
    /\ UNCHANGED <<rvars, xvars, tvars, documents, files, clock, svars, avars, pvars>>

\* helpers.bulk sends the next chunk of at most batch_size actions
SendChunk ==
    /\ pc = "bulk"
    /\ pos <= Len(documents)
    /\ LET last == IF pos + batch_size - 1 < Len(documents)
                   THEN pos + batch_size - 1 ELSE Len(documents)
           st == SendActions([es |-> es, nextAuto |-> nextAuto,
                              success |-> success, errors |-> errors,
                              outcome |-> outcome],
                             documents, pos, last, replace_existing, malformed)
       IN  /\ es' = st.es
           /\ nextAuto' = st.nextAuto
           /\ success' = st.success
           /\ errors' = st.errors
           /\ outcome' = st.outcome
           /\ pos' = last + 1
           /\ pc' = IF RaiseOnError /\ Len(st.errors) > Len(errors)
                    THEN "BulkIndexError" ELSE "bulk"
    /\ UNCHANGED <<rvars, xvars, tvars, documents, files, clock, searchable, avars, skipped,
                   real_errors, callers, esAtCall, esAfterFirst, returns,
                   pvars>>

\* the request of a chunk fails on the way: helpers.bulk raises
SendChunkFails ==
    /\ pc = "bulk"
    /\ pos <= Len(documents)
    /\ pc' = "ConnectionError"
    /\ UNCHANGED <<rvars, xvars, tvars, documents, files, clock, svars, avars, bvars, hvars,
                   pvars>>

\* all chunks sent: refresh the index, report the counts, return
RefreshAndReturn ==
    /\ pc = "bulk"
    /\ pos > Len(documents)
    /\ searchable' = Refresh(es, searchable)
    /\ real_errors' = IF errors # <<>> /\ ~replace_existing
                      THEN RealErrors(errors) ELSE errors
    /\ skipped' = Len(errors) - Len(real_errors')
    /\ ReturnNormally
    /\ UNCHANGED <<rvars, xvars, tvars, documents, files, clock, es, nextAuto, avars, pos,
                   success, errors, callers, esAtCall, outcome, pvars>>

NextLoad ==
    \/ RunEtlFile
    \/ Load
    \/ SendChunk
    \/ SendChunkFails
    \/ RefreshAndReturn

SpecLoad == InitLoad /\ [][NextLoad]_vars

----------------------------------------------------------------------------
(* process_single_file on one archive file                                 *)

InitBatch ==
    /\ \/ taz = WholeArchive /\ root \in LoadRoots(MaxLoadParas)
       \/ taz \in BrokenArchives /\ root = OneParaRoot("p1")
    /\ metadata = Metadata(2022, 1)
    /\ documents = <<>>
    /\ pc = "idle"
    /\ files = <<>>
    /\ clock = 1
    /\ es \in {<<>>, EarlierIndex}
    /\ searchable = es
    /\ nextAuto = 1
    /\ malformed \in {{}, {"p2"}}
    /\ replace_existing = FALSE
    /\ batch_size = DefaultBatchSize
    /\ pos = 1
    /\ success = 0
    /\ errors = <<>>
    /\ skipped = 0
    /\ real_errors = <<>>
    /\ callers = <<>>
    /\ esAtCall = es
    /\ esAfterFirst = <<>>
    /\ returns = 0
    /\ outcome = <<>>
    /\ taz_file \in TazFiles
    /\ skip_existing \in BOOLEAN
    /\ index_to_es \in BOOLEAN
    /\ result = Result("none", 0, NoneStr)
    /\ count_raised = FALSE
    /\ NoRun
    /\ NoDate
    /\ save_transform_file = FALSE

\* process_single_file(taz_file, skip_existing, index_to_es) up to the call
\* of bulk_index: the pre-check, then process_taz_file
ProcessSingleFile(count_fails) ==
    /\ pc \in {"idle", "done"}
    /\ Len(callers) < MaxCalls
    /\ callers' = Append(callers, "process_single_file")
    /\ IF skip_existing
          /\ check_if_already_indexed(taz_file, searchable, count_fails)
       THEN /\ result' = Result("skipped", 0, NoneStr)
            /\ pc' = "done"
            /\ esAtCall' = es
            /\ UNCHANGED <<documents, files, clock, bvars, outcome, returns,
                           esAfterFirst>>
       ELSE LET r == process_taz_file(files, extract_xml_from_taz(taz, root),
                                      metadata, "transformed", FALSE, clock)
            IN  /\ documents' = r.documents
                /\ files' = r.files
                /\ clock' = clock + 1
                /\ IF r.documents = <<>>
                   THEN /\ result' = Result("failed", 0, "Aucun document extrait")
                        /\ pc' = "done"
                        /\ esAtCall' = es
                        /\ UNCHANGED <<bvars, outcome, returns, esAfterFirst>>
                   ELSE IF index_to_es
                   THEN /\ result' = Result("pending", 0, NoneStr)
                        /\ EnterBulkIndex
                   ELSE /\ result' = Result("success", Len(r.documents), NoneStr)
                        /\ pc' = "done"
                        /\ esAtCall' = es
                        /\ UNCHANGED <<bvars, outcome, returns, esAfterFirst>>
    /\ count_raised' = (skip_existing /\ CountQueryIssued(taz_file) /\ count_fails)
    /\ replace_existing' = FALSE
    /\ batch_size' = DefaultBatchSize
    /\ UNCHANGED <<rvars, xvars, tvars, svars, malformed, taz_file, skip_existing,
                   index_to_es>>

\* bulk_index returned: the file is a success
FileSucceeds ==
    /\ pc = "returned"
    /\ result.status = "pending"
    /\ result' = Result("success", Len(documents), NoneStr)
    /\ pc' = "done"
    /\ UNCHANGED <<rvars, xvars, tvars, documents, files, clock, svars, avars, bvars, hvars,
                   taz_file, skip_existing, index_to_es, count_raised>>

\* bulk_index raised: except Exception as e
FileFails ==
    /\ pc \in {"ConnectionError", "BulkIndexError"}
    /\ result.status = "pending"
    /\ result' = Result("failed", 0, pc)
    /\ pc' = "done"
    /\ UNCHANGED <<rvars, xvars, tvars, documents, files, clock, svars, avars, bvars, hvars,
                   taz_file, skip_existing, index_to_es, count_raised>>

NextBatch ==
    \/ \E count_fails \in BOOLEAN : ProcessSingleFile(count_fails)
    \/ SendChunk
    \/ SendChunkFails
    \/ RefreshAndReturn
    \/ FileSucceeds
    \/ FileFails

SpecBatch == InitBatch /\ [][NextBatch]_vars

----------------------------------------------------------------------------
(* BatchLoader.run                                                         *)

InitRunOver(listings, filters) ==
    /\ root = NoRoot
    /\ metadata = Metadata(2022, 1)
    /\ documents = <<>>
    /\ pc = "idle"
    /\ files = <<>>
    /\ clock = 1
    /\ es = <<>>
    /\ searchable = <<>>
    /\ nextAuto = 1
    /\ malformed = {}
    /\ replace_existing = FALSE
    /\ batch_size = DefaultBatchSize
    /\ pos = 1
    /\ success = 0
    /\ errors = <<>>
    /\ skipped = 0
    /\ real_errors = <<>>
    /\ callers = <<>>
    /\ esAtCall = <<>>
    /\ esAfterFirst = <<>>
    /\ returns = 0
    /\ outcome = <<>>
    /\ taz_file = <<>>
    /\ skip_existing \in BOOLEAN
    /\ index_to_es \in BOOLEAN
    /\ result = Result("none", 0, NoneStr)
    /\ count_raised = FALSE
    /\ base_dir \in listings
    /\ taz_files = <<>>
    /\ jobs = <<>>
    /\ stats = _init_stats
    /\ report \in InitialReports
    /\ reportAtCall = report
    /\ run_pc = "idle"
    /\ parallel \in BOOLEAN
    /\ max_workers \in IF parallel THEN WorkerCounts ELSE {1}
    /\ years \in filters
    /\ runs_called = 0
    /\ NoDate
    /\ save_transform_file = FALSE
    /\ taz = WholeArchive

InitRun == InitRunOver(Listings(MaxRunFiles), YearFilters)

\* what a run leaves alone
NotOfRun ==
    UNCHANGED <<xvars, tvars, documents, pc, avars, bvars, hvars, pvars, base_dir,
                parallel, max_workers, years>>

\* a future: not started, running in a worker, finished, collected by the
\* main thread, never collected
Job(state, res) == [state |-> state, result |-> res]

\* run(base_dir, parallel, skip_existing, years, index_to_es) up to the
\* processing of the files; returns at once when there is no file
Run ==
    /\ run_pc \in {"idle", "done"}
    /\ runs_called < MaxRuns
    /\ runs_called' = runs_called + 1
    /\ reportAtCall' = report
    /\ stats' = [_init_stats EXCEPT !.start_time = clock]
    /\ clock' = clock + 1
    /\ LET selected == IF base_dir = <<>> THEN <<>>
                       ELSE SelectedFiles(base_dir, years)
       IN  /\ taz_files' = selected
           /\ jobs' = [i \in 1..Len(selected) |->
                          Job("queued", Result("none", 0, NoneStr))]
           /\ run_pc' = IF selected = <<>> THEN "done" ELSE "processing"
    /\ UNCHANGED <<svars, files, report>>
    /\ NotOfRun

\* the state a step of process_single_file works on
StoreNow ==
    [es |-> es, searchable |-> searchable, nextAuto |-> nextAuto,
     files |-> files, clock |-> clock]

\* the step leaves st behind
StoreBecomes(st) ==
    /\ es' = st.es
    /\ searchable' = st.searchable
    /\ nextAuto' = st.nextAuto
    /\ files' = st.files
    /\ clock' = st.clock

\* the jobs after the main thread took the result of job i
Collected(i, res) ==
    [j \in DOMAIN jobs |->
        IF j = i THEN Job("collected", res)
        ELSE IF ~ContinueAfter(res) /\ jobs[j].state # "collected"
        THEN Job("dropped", jobs[j].result)
        ELSE jobs[j]]

\* the loop body after process_single_file returned r: _update_stats
ProcessedInLoop(i, r) ==
    /\ StoreBecomes(r.st)
    /\ stats' = _update_stats(stats, r.result)
    /\ jobs' = Collected(i, r.result)

\* the worker after process_single_file returned r: the future is finished
ProcessedByWorker(i, r) ==
    /\ StoreBecomes(r.st)
    /\ jobs' = [jobs EXCEPT ![i] = Job("finished", r.result)]

\* process_files_sequential: one turn of the loop, on the next file
ProcessSequential(count_fails, write_fails) ==
    /\ run_pc = "processing"
    /\ ~parallel
    /\ \E i \in DOMAIN jobs :
           /\ jobs[i].state = "queued"
           /\ \A j \in 1..(i - 1) : jobs[j].state # "queued"
           /\ ProcessedInLoop(i, process_single_file(taz_files[i],
                  skip_existing, index_to_es, count_fails, write_fails,
                  malformed, StoreNow))
    /\ UNCHANGED <<taz_files, report, reportAtCall, run_pc, runs_called>>
    /\ NotOfRun

\* process_files_parallel: a free worker of the pool starts the next job
StartJob ==
    /\ run_pc = "processing"
    /\ parallel
    /\ Cardinality({j \in DOMAIN jobs : jobs[j].state = "running"})
           < max_workers
    /\ \E i \in DOMAIN jobs :
           /\ jobs[i].state = "queued"
           /\ \A j \in 1..(i - 1) : jobs[j].state # "queued"
           /\ jobs' = [jobs EXCEPT ![i].state = "running"]
    /\ UNCHANGED <<svars, files, clock, taz_files, stats, report, reportAtCall,
                   run_pc, runs_called>>
    /\ NotOfRun

\* a worker runs process_single_file on its file
FinishJob(count_fails, write_fails) ==
    /\ run_pc = "processing"
    /\ \E i \in DOMAIN jobs :
           /\ jobs[i].state = "running"
           /\ ProcessedByWorker(i, process_single_file(taz_files[i],
                  skip_existing, index_to_es, count_fails, write_fails,
                  malformed, StoreNow))
    /\ UNCHANGED <<taz_files, stats, report, reportAtCall, run_pc, runs_called>>
    /\ NotOfRun

\* the main thread takes a finished future from as_completed
CollectJob ==
    /\ run_pc = "processing"
    /\ \E i \in DOMAIN jobs :
           /\ jobs[i].state = "finished"
           /\ stats' = _update_stats(stats, jobs[i].result)
           /\ jobs' = Collected(i, jobs[i].result)
    /\ UNCHANGED <<svars, files, clock, taz_files, report, reportAtCall,
                   run_pc, runs_called>>
    /\ NotOfRun

\* the files are done: end_time, print_summary, save_report, return
FinishRun ==
    /\ run_pc = "processing"
    /\ \A j \in DOMAIN jobs : jobs[j].state \in {"collected", "dropped"}
    /\ stats' = [stats EXCEPT !.end_time = clock]
    /\ clock' = clock + 1
    /\ report' = save_report(report, stats')
    /\ run_pc' = "done"
    /\ UNCHANGED <<svars, files, taz_files, jobs, reportAtCall, runs_called>>
    /\ NotOfRun

NextRun ==
    \/ Run
    \/ \E count_fails, write_fails \in BOOLEAN :
           ProcessSequential(count_fails, write_fails)
    \/ StartJob
    \/ \E count_fails, write_fails \in BOOLEAN :
           FinishJob(count_fails, write_fails)
    \/ CollectJob
    \/ FinishRun

SpecRun == InitRun /\ [][NextRun]_vars

\* the runs that start with no report file
InitRunFair == InitRun /\ report = NoFile

\* the runs over a directory whose files share a paragraph identifier
InitRunShared ==
    InitRunOver({SharedIdFiles, <<SharedIdFiles[1], RunUniverse[2]>>}, {<<>>})

SpecRunShared == InitRunShared /\ [][NextRun]_vars

\* values of years that name one year, a year twice, two years
RepeatingFilters ==
    {<<<<"2", "0", "2", "2">>>>,
     <<<<"2", "0", "2", "2">>, <<"2", "0", "2", "2">>>>,
     <<<<"2", "0", "2", "3">>, <<"2", "0", "2", "2">>>>}

\* the runs with such a filter that write to no index, started with no
\* report file
InitRunYears ==
    /\ InitRunOver(Listings(MaxRunFiles), RepeatingFilters)
    /\ report = NoFile
    /\ ~index_to_es
    /\ ~skip_existing

SpecRunYears == InitRunYears /\ [][NextRun]_vars

\* the main thread and the workers of the pool are scheduled as long as
\* one of them has a step to take
SpecRunFair == InitRunFair /\ [][NextRun]_vars /\ WF_vars(NextRun)

----------------------------------------------------------------------------
(* transform_year: process_directory over the archives of a year           *)

\* the archive files of a year directory: two sittings of one day, a
\* sitting of the next day, a file that holds no XML
YearUniverse ==
    << RunUniverse[1], RunUniverse[2],
       TazPath(<<"2", "0", "2", "2">>,
               Stem(<<"2", "0", "2", "2">>, <<"0", "0", "3">>),
               OneParaRoot("p3"),
               [Metadata(2022, 3) EXCEPT
                    !.date_seance = <<"2022", "-", "10", "-", "05">>]),
       TazPath(<<"2", "0", "2", "2">>,
               Stem(<<"2", "0", "2", "2">>, <<"0", "0", "4">>),
               NoRoot, Metadata(2022, 4)) >>

\* the lists Path(directory).glob("*.taz") can return: at most n files, in
\* any order
RECURSIVE GlobListings(_)
GlobListings(n) ==
    IF n = 0 THEN {<<>>}
    ELSE LET shorter == GlobListings(n - 1)
         IN  shorter \cup
             {Append(l, YearUniverse[i]) :
                 <<l, i>> \in {li \in shorter \X DOMAIN YearUniverse :
                                  \A k \in DOMAIN li[1] :
                                      li[1][k] # YearUniverse[li[2]]}}

InitYear ==
    /\ root = NoRoot
    /\ metadata = Metadata(2022, 1)
    /\ documents = <<>>
    /\ pc = "idle"
    /\ files = <<>>
    /\ clock = 1
    /\ es = <<>>
    /\ searchable = <<>>
    /\ nextAuto = 1
    /\ malformed = {}
    /\ replace_existing = TRUE
    /\ batch_size = DefaultBatchSize
    /\ pos = 1
    /\ success = 0
    /\ errors = <<>>
    /\ skipped = 0
    /\ real_errors = <<>>
    /\ callers = <<>>
    /\ esAtCall = <<>>
    /\ esAfterFirst = <<>>
    /\ returns = 0
    /\ outcome = <<>>
    /\ taz_file = <<>>
    /\ skip_existing = FALSE
    /\ index_to_es = FALSE
    /\ result = Result("none", 0, NoneStr)
    /\ count_raised = FALSE
    /\ base_dir \in GlobListings(MaxRunFiles)
    /\ taz_files = <<>>
    /\ jobs = <<>>
    /\ stats = _init_stats
    /\ report = NoFile
    /\ reportAtCall = report
    /\ run_pc = "idle"
    /\ parallel = FALSE
    /\ max_workers = 1
    /\ years = <<>>
    /\ runs_called = 0
    /\ NoDate
    /\ taz = WholeArchive
    /\ save_transform_file \in BOOLEAN

\* transform_year(year, output_dir, save_transform_file) up to the loop of
\* process_directory; returns at once when the directory holds no archive
TransformYear ==
    /\ run_pc \in {"idle", "done"}
    /\ runs_called < MaxRuns
    /\ runs_called' = runs_called + 1
    /\ taz_files' = base_dir
    /\ documents' = <<>>
    /\ pos' = 1
    /\ run_pc' = IF base_dir = <<>> THEN "done" ELSE "processing"
    /\ UNCHANGED <<xvars, tvars, pc, files, clock, svars, avars, hvars, pvars,
                   success, errors, skipped, real_errors, base_dir, jobs,
                   stats, report, reportAtCall, parallel, max_workers, years>>

\* one turn of the loop of process_directory: process_taz_file on the next
\* file, its documents added to all_documents
ProcessNextFile ==
    /\ run_pc = "processing"
    /\ pos <= Len(taz_files)
    /\ LET r == process_taz_file(files, taz_files[pos].root,
                                 taz_files[pos].metadata, "transformed",
                                 save_transform_file, clock)
       IN  /\ files' = r.files
           /\ documents' = documents \o r.documents
    /\ clock' = clock + 1
    /\ pos' = pos + 1
    /\ run_pc' = IF pos = Len(taz_files) THEN "done" ELSE "processing"
    /\ UNCHANGED <<xvars, tvars, pc, svars, avars, hvars, pvars, success,
                   errors, skipped, real_errors, base_dir, taz_files, jobs,
                   stats, report, reportAtCall, parallel, max_workers, years,
                   runs_called>>

NextYear == TransformYear \/ ProcessNextFile

SpecYear == InitYear /\ [][NextYear]_vars

----------------------------------------------------------------------------
(* Paragraph assembly                                                      *)

\* the ids of the records of a list
ParaIdsOf(docs) == {docs[i]["para_id"] : i \in 1..Len(docs)}

\* the direct Para children of a container that carry an identifier
IdParas(container) ==
    SelectSeq(FindAllChildren(container, "Para"),
              LAMBDA p : p.attrib.idsyceron # NoneStr)

\* node i of q opens a run of nodes with one identifier
RunStart(q, i) == i = 1 \/ q[i].attrib.idsyceron # q[i - 1].attrib.idsyceron

\* nodes i and i + 1 of q are a run of exactly two nodes
RunOfTwo(q, i) ==
    /\ i + 1 <= Len(q)
    /\ RunStart(q, i)
    /\ q[i + 1].attrib.idsyceron = q[i].attrib.idsyceron
    /\ (i + 2 <= Len(q) => RunStart(q, i + 2))

\* the position, in the output of a container, of the record of node i
RunIndex(q, i) == Cardinality({j \in 1..i : RunStart(q, j)})

\* the speaker name the first node of a run establishes
EstablishedNom(para) == Get(extract_orateur(para), "nom", NoneText)

\* strip of claim C1: the fragment of a node without the echo of a speaker
StrippedFragment(para, nom) ==
    remove_speaker_prefix(extract_text_recursive(para), nom)

TheSection == root.children[1]

\* C1: two consecutive identifier-bearing Para children of a container with the
\* same idsyceron give exactly one record, whose text is the stripped text of
\* the first, a space, and the stripped text of the second, both stripped of
\* the speaker name of the first.
C1_ContinuationMerge ==
    pc = "extracted" =>
        LET q == IdParas(TheSection)
        IN  /\ Len(documents) = Cardinality({j \in 1..Len(q) : RunStart(q, j)})
            /\ \A i \in 1..Len(q) :
                  RunOfTwo(q, i) =>
                      LET rec == documents[RunIndex(q, i)]
                          nom == EstablishedNom(q[i])
                      IN  /\ rec["para_id"] = q[i].attrib.idsyceron
                          /\ rec["texte"] = StrippedFragment(q[i], nom) \o <<" ">>
                                            \o StrippedFragment(q[i + 1], nom)

\* a run of two nodes whose speaker the first names and the second echoes
C1_Witness ==
    /\ pc = "extracted"
    /\ \E i \in 1..Len(IdParas(TheSection)) :
          LET q == IdParas(TheSection)
          IN  /\ RunOfTwo(q, i)
              /\ Truthy(EstablishedNom(q[i]))
              /\ StrippedFragment(q[i], EstablishedNom(q[i])) # <<>>
              /\ StrippedFragment(q[i + 1], EstablishedNom(q[i]))
                     \notin {<<>>, Strip(extract_text_recursive(q[i + 1]))}

\* every Para element of the tree, in document order
AllParas == FindAll(root, "Para")

\* the identifiers the Para elements of the tree carry
TreeIds ==
    {AllParas[i].attrib.idsyceron : i \in 1..Len(AllParas)} \ {NoneStr}

\* C2: no two records of the list extract_sections returns have the same
\* para_id, wherever the occurrences of an identifier are in the tree.
C2_UniqueParaIds ==
    pc = "extracted" =>
        \A i, j \in 1..Len(documents) :
            i # j => documents[i]["para_id"] # documents[j]["para_id"]

\* C3: the para_ids of the output are exactly the identifiers the Para
\* elements of the tree carry: none is missing, none is spurious.
C3_IdentifierCoverage ==
    pc = "extracted" => ParaIdsOf(documents) = TreeIds

\* C4: every record of the final list has a text that is not empty after
\* trimming.
C4_NoEmptyText ==
    pc = "extracted" =>
        \A i \in 1..Len(documents) : Strip(documents[i]["texte"]) # <<>>

----------------------------------------------------------------------------
(* Writing to the index                                                    *)

\* the para_id of the i-th document of the list
IdOf(i) == Get(documents[i], "para_id", "")

\* the documents of the index that carry a para_id
StoredWith(index, id) ==
    {k \in DOMAIN index : Get(index[k], "para_id", "") = id}

\* the last document of the list that the store stored with the para_id of
\* the i-th
LastStored(i) ==
    CHOOSE j \in 1..Len(documents) :
        /\ IdOf(j) = IdOf(i) /\ outcome[j] = "stored"
        /\ \A l \in (j + 1)..Len(documents) :
               ~(IdOf(l) = IdOf(i) /\ outcome[l] = "stored")

\* a call of bulk_index has returned
BulkReturned == pc = "returned" /\ documents # <<>>

\* every pipeline call so far was run_etl_file
OnlyRuns == \A i \in 1..Len(callers) : callers[i] = "run_etl_file"

\* C5: running the full pipeline (process_taz_file, then bulk_index in
\* replace mode) again over the same archive leaves the index with the same
\* keys, the same values of all fields under each key and no additional
\* document, compared with the index after the first run.
C5_RerunLeavesIndexUnchanged ==
    (replace_existing /\ OnlyRuns /\ pc = "returned" /\ returns >= 2
         /\ returns = Len(callers) /\ errors = <<>>)
        => /\ DOMAIN es = DOMAIN esAfterFirst
           /\ \A k \in DOMAIN es : es[k] = esAfterFirst[k]

\* C6: after bulk_index in replace mode over a list the transformer emitted,
\* none of it rejected, the index holds exactly one document per distinct
\* para_id of the list, under that para_id as key and equal to the last
\* record of the list with that para_id; writing the same list again does
\* not increase the number of documents of the index.
C6_ReplaceKeyedByParaId ==
    (replace_existing /\ BulkReturned /\ errors = <<>>)
        => /\ \A i \in 1..Len(documents) :
                /\ DocKey(IdOf(i)) \in DOMAIN es
                /\ es[DocKey(IdOf(i))] = documents[LastStored(i)]
                /\ StoredWith(es, IdOf(i)) = {DocKey(IdOf(i))}
           /\ callers[Len(callers)] = "load"
                => Cardinality(DOMAIN es) = Cardinality(DOMAIN esAtCall)

\* the number of actions of the call that the store treated in a given way
CountOutcome(o) == Cardinality({i \in 1..Len(outcome) : outcome[i] = o})

\* the error items reported as real errors
RealSet == {real_errors[i] : i \in 1..Len(real_errors)}

ChunkOf(i) == (i - 1) \div batch_size

\* the i-th record of the list is in the index, or the record that replaced
\* it later in the same call is
IsStored(i) ==
    IF IdOf(i) = ""
    THEN \E k \in DOMAIN es \ DOMAIN esAtCall : es[k] = documents[i]
    ELSE /\ DocKey(IdOf(i)) \in DOMAIN es
         /\ es[DocKey(IdOf(i))] = documents[LastStored(i)]

\* C8: rejections neither make bulk_index raise nor stop it early: when the
\* call returns, every action of the batch was sent and every record the
\* store accepted is stored, also in chunks after a chunk with a rejection.
C8_RejectionsDoNotAbort ==
    /\ pc # "BulkIndexError"
    /\ BulkReturned
        => /\ Len(outcome) = Len(documents)
           /\ success = CountOutcome("stored")
           /\ \A i \in 1..Len(documents) : outcome[i] = "stored" => IsStored(i)

\* a call returned with a rejection in one chunk and a record stored from a
\* later chunk
C8_Witness ==
    /\ BulkReturned
    /\ \E i, j \in 1..Len(documents) :
           /\ ChunkOf(i) < ChunkOf(j)
           /\ outcome[i] # "stored" /\ outcome[j] = "stored"
           /\ IsStored(j)

\* every document of the index is seen by searches, as it was written
AllSearchable ==
    \A k \in DOMAIN es : k \in DOMAIN searchable /\ searchable[k] = es[k]

\* C9: bulk_index refreshes the index after all chunks were sent and before
\* it returns, so that a read after the return sees every record accepted;
\* it never returns normally without the refresh.
C9_RefreshBeforeReturn ==
    /\ [](BulkReturned => (pos > Len(documents) /\ AllSearchable))
    /\ [][searchable' # searchable
              => (pc = "bulk" /\ pos > Len(documents) /\ pc' = "returned")]_vars
    /\ [][(pc = "bulk" /\ pc' = "returned") => searchable' = es]_vars

\* a call in several chunks returned and its new documents are searchable
C9_Witness ==
    /\ BulkReturned
    /\ Len(documents) > batch_size
    /\ DOMAIN es # DOMAIN esAtCall
    /\ \E k \in DOMAIN es \ DOMAIN esAtCall : searchable[k] = es[k]

----------------------------------------------------------------------------
(* Skipping the files already loaded                                       *)

\* the file is named AN_<YYYY><NNN>
IsArchiveName(name) ==
    /\ Len(name) = 10
    /\ SubSeq(name, 1, 3) = <<"A", "N", "_">>
    /\ ~IntFails(SubSeq(name, 4, 10))

\* the index held a record of the year and number of the file name when the
\* call started
HeldAtCall(name) ==
    \E k \in DOMAIN esAtCall :
        /\ esAtCall[k]["annee"] = ParseInt(SubSeq(name, 4, 7))
        /\ esAtCall[k]["publication_numero"] = ParseInt(SubSeq(name, 8, 10))

----------------------------------------------------------------------------
(* The pre-check fails open                                                *)

\* the documents the transformer returned to the last call
TransformedNow ==
    process_taz_file(files, extract_xml_from_taz(taz, root), metadata,
                     "transformed", FALSE, clock - 1).documents

\* C11: when the count query of the pre-check raises, the pre-check answers
\* "not indexed" and process_single_file transforms and writes the file: the
\* file is never 'skipped', and it is 'failed' only when the transform gave
\* no document or the write itself raised.
C11_PreCheckFailsOpen ==
    (count_raised /\ pc = "done")
        => /\ result.status \in {"success", "failed"}
           /\ documents = TransformedNow
           /\ result.status = "failed"
                  => (documents = <<>> \/ result.error = "ConnectionError")
           /\ (documents # <<>> /\ index_to_es /\ result.status = "success")
                  => (Len(outcome) = Len(documents) /\ returns > 0)
           /\ (documents # <<>> /\ ~index_to_es) => result.status = "success"

\* a file whose pre-check query raised was transformed and written
C11_Witness ==
    /\ count_raised /\ pc = "done"
    /\ result.status = "success" /\ index_to_es
    /\ DOMAIN es # DOMAIN esAtCall

----------------------------------------------------------------------------
(* A run of the batch loader                                               *)

Outcomes == {"success", "failed", "skipped"}

\* the jobs whose result the main thread has taken
CollectedJobs == {j \in DOMAIN jobs : jobs[j].state = "collected"}

\* the number of results taken with a given status
CollectedWith(status) ==
    Cardinality({j \in CollectedJobs : jobs[j].result.status = status})

\* a call of run has returned
RunReturned == run_pc = "done" /\ runs_called > 0

\* C12: in a run, sequential or parallel, every selected file is eventually
\* processed to an outcome whatever files fail: the run ends, and when it
\* ends stats.total is the number of selected files and every file, also one
\* that comes after a failed file, has its outcome.
C12_EveryFileProcessed ==
    /\ [](RunReturned
            => /\ stats.total = Len(taz_files)
               /\ \A j \in DOMAIN jobs :
                      /\ jobs[j].state = "collected"
                      /\ jobs[j].result.status \in Outcomes)
    /\ (run_pc = "processing") ~> (run_pc = "done")

\* a run ended in which a file failed and a later file succeeded
C12_Witness ==
    /\ RunReturned
    /\ stats.total = Len(taz_files)
    /\ \E i, j \in DOMAIN jobs :
           /\ i < j
           /\ jobs[i].result.status = "failed"
           /\ jobs[j].result.status = "success"

\* the entries of stats.errors for a file
ErrorsOf(file) ==
    {k \in 1..Len(stats.errors) : stats.errors[k].file = file}

\* C13: at every moment of a run total = success + failed + skipped, the
\* errors list holds one entry per failed file, and every result returned
\* by process_single_file is success, failed or skipped, never 'pending'.
C13_StatsAddUp ==
    /\ stats.total = stats.success + stats.failed + stats.skipped
    /\ stats.total = Cardinality(CollectedJobs)
    /\ stats.success = CollectedWith("success")
    /\ stats.failed = CollectedWith("failed")
    /\ stats.skipped = CollectedWith("skipped")
    /\ Len(stats.errors) = stats.failed
    /\ \A j \in DOMAIN jobs :
           jobs[j].state \in {"finished", "collected"}
               => jobs[j].result.status \in Outcomes
    /\ \A j \in CollectedJobs :
           Cardinality(ErrorsOf(jobs[j].result.file))
               = Cardinality({k \in CollectedJobs :
                                 /\ jobs[k].result.file = jobs[j].result.file
                                 /\ jobs[k].result.status = "failed"})

\* a run ended with a file skipped and a file failed
C13_Witness ==
    /\ RunReturned
    /\ stats.skipped > 0 /\ stats.failed > 0
    /\ stats.total = 2

\* C14: every call of run appends one record to the runs of the report file
\* and keeps the records the file held, unchanged and in their order.
C14_RunAppendsOneRecord ==
    RunReturned
        => /\ report.kind = "runs"
           /\ Len(report.data) = Len(ExistingRuns(reportAtCall)) + 1
           /\ SubSeq(report.data, 1, Len(ExistingRuns(reportAtCall)))
                  = ExistingRuns(reportAtCall)

\* the positions in documents of the records of a section
RecordsOf(section) ==
    {i \in 1..Len(documents) :
        Get(documents[i], "section_id", "") = SectionData(section, metadata)["section_id"]}

\* the keys of vote_data besides vote_present
VoteKeys == {VoteFields[i].key : i \in 1..Len(VoteFields)}

\* the record carries the vote and nothing of a vote that the subtree lacks
CarriesVote(doc, vote) ==
    /\ doc["vote_present"] = TRUE
    /\ \A k \in VoteKeys :
           IF k \in DOMAIN vote
           THEN k \in DOMAIN doc /\ doc[k] = vote[k]
           ELSE k \notin DOMAIN doc

\* the last record emitted for the section
LastRecordOf(section) ==
    documents[CHOOSE i \in RecordsOf(section) : \A j \in RecordsOf(section) : j <= i]

\* C15: after extract_sections, the last record of every section that holds
\* a vote result has vote_present true and exactly the counts of the vote
\* result, and the records of a section without vote result have
\* vote_present false.
C15_VoteOnLastRecord ==
    pc = "extracted"
        => \A section \in {FindAll(root, "Section")[i] :
                              i \in 1..Len(FindAll(root, "Section"))} :
               IF extract_vote(section) = EmptyDict
               THEN \A i \in RecordsOf(section) :
                        documents[i]["vote_present"] = FALSE
               ELSE RecordsOf(section) # {}
                        => CarriesVote(LastRecordOf(section), extract_vote(section))

\* node i of q is a run of its own
RunOfOne(q, i) == RunStart(q, i) /\ (i + 1 <= Len(q) => RunStart(q, i + 1))

\* the text content of the node starts, after the whitespace of the markup,
\* with the speaker name
StartsWithNom(para, nom) ==
    Truthy(nom) /\ StartsWith(Strip(extract_text_recursive(para)), nom, FALSE)

\* C16: the text stored for a Para whose text content starts with the
\* established speaker name does not begin with that name: the text of the
\* record of a new paragraph, and the part a continuation appends to it.
C16_SpeakerNameStripped ==
    pc = "extracted" =>
        LET q == IdParas(TheSection)
        IN  \A i \in 1..Len(q) :
                LET nom == EstablishedNom(q[i])
                    rec == documents[RunIndex(q, i)]
                IN  /\ (RunOfOne(q, i) /\ StartsWithNom(q[i], nom))
                           => ~StartsWith(rec["texte"], nom, FALSE)
                    /\ (RunOfTwo(q, i) /\ StartsWithNom(q[i + 1], nom))
                           => ~StartsWith(
                                  Drop(rec["texte"],
                                       Len(StrippedFragment(q[i], nom)) + 1),
                                  nom, FALSE)

\* a string of digits of the given length
IsNumber(str, n) == Len(str) = n /\ \A i \in 1..n : IsDigit(str[i])

\* YYYY-MM-DD
IsIsoDate(str) ==
    /\ Len(str) = 10
    /\ IsNumber(SubSeq(str, 1, 4), 4)
    /\ str[5] = "-"
    /\ IsNumber(SubSeq(str, 6, 7), 2)
    /\ str[8] = "-"
    /\ IsNumber(SubSeq(str, 9, 10), 2)

\* Weekday-DD-MM-MonthName-YYYY
IsDateOfTheSource(str) ==
    /\ str # NoneText
    /\ LET parts == Split(str, <<>>)
       IN  /\ Len(parts) = 5
           /\ IsNumber(parts[2], 1) \/ IsNumber(parts[2], 2)
           /\ IsNumber(parts[3], 1) \/ IsNumber(parts[3], 2)
           /\ IsNumber(parts[5], 4)

Mercredi22Mai2013 ==
    <<"M", "e", "r", "c", "r", "e", "d", "i", "-", "2", "2", "-", "0", "5", "-",
      "M", "a", "i", "-", "2", "0", "1", "3">>

\* C17: parse_date returns null or a well-formed YYYY-MM-DD:
\* Mercredi-22-05-Mai-2013 gives 2013-05-22, and a string that is not of the
\* form Weekday-DD-MM-MonthName-YYYY gives null.
C17_ParseDateIsoOrNull ==
    pc = "date"
        => /\ date_iso = NoneText \/ IsIsoDate(date_iso)
           /\ date_str = Mercredi22Mai2013
                  => date_iso = <<"2", "0", "1", "3", "-", "0", "5", "-", "2", "2">>
           /\ ~IsDateOfTheSource(date_str) => date_iso = NoneText

\* the metadata subtree of the document, if it has one
MetaElems == FindAll(root, "Metadonnees")

\* the field of the metadata subtree is there and its text is no number
BadNumber(tag) ==
    /\ MetaElems # <<>>
    /\ FindAllChildren(MetaElems[1], tag) # <<>>
    /\ IntFails(FindAllChildren(MetaElems[1], tag)[1].text)

\* the date field is there and its text is no date of the source
BadDate(tag) ==
    /\ MetaElems # <<>>
    /\ FindAllChildren(MetaElems[1], tag) # <<>>
    /\ ~IsDateOfTheSource(TextOrNone(FindAllChildren(MetaElems[1], tag)[1]))

\* the key is unset or null
Unset(d, key) == key \notin DOMAIN d \/ d[key] = NoneText

\* C18: whatever field of the metadata subtree is missing, empty or
\* malformed, extract_metadata does not raise and leaves that field unset or
\* null, and process_taz_file returns the paragraph records of the document.
C18_MetadataFailureKeepsFile ==
    pc = "processed"
        => /\ ~Raised(metadata)
           /\ BadNumber("PublicationNumero") => Unset(metadata, "publication_numero")
           /\ BadNumber("LegislatureNumero") => Unset(metadata, "legislature")
           /\ BadNumber("NumeroPremierePage")
                  => Unset(metadata, "numero_premiere_page")
           /\ BadDate("DateSeance") => Unset(metadata, "date_seance")
           /\ BadDate("DateParution") => Unset(metadata, "date_parution")
           /\ ParaIdsOf(documents) = TreeIds

\* the outer archive cannot be opened
CannotBeOpened == ~taz.opens

\* the outer archive has no member ending in .tar
NoTarMember == \A i \in 1..Len(taz.members) : ~EndsWith(taz.members[i], ".tar")

\* the inner archive has no member named CRI_*.xml
NoCriMember ==
    \A i \in 1..Len(taz.tar_members) :
        ~(StartsWithPart(taz.tar_members[i], "CRI_")
              /\ EndsWith(taz.tar_members[i], ".xml"))

\* the payload fails to parse
ParseFails == ~taz.parses

SectionsOfTree ==
    {FindAll(root, "Section")[i] : i \in 1..Len(FindAll(root, "Section"))}

\* the section has a SousSection1 or SousSection2 child
HasSousSections(section) ==
    FindAllChildren(section, "SousSection1") # <<>>
        \/ FindAllChildren(section, "SousSection2") # <<>>

\* C20: the identifier-bearing Para nodes that are direct children of a
\* Section with subsections are in the output of extract_sections, with
\* the context of the section and no subsection title.
C20_DirectParasOfSectionKept ==
    pc = "extracted"
        => \A section \in SectionsOfTree :
               HasSousSections(section)
                   => \A i \in 1..Len(IdParas(section)) :
                          \E k \in 1..Len(documents) :
                              /\ documents[k]["para_id"]
                                     = IdParas(section)[i].attrib.idsyceron
                              /\ documents[k]["section_id"]
                                     = SectionData(section, metadata)["section_id"]
                              /\ "sous_section_titre" \notin DOMAIN documents[k]

----------------------------------------------------------------------------
(* Concurrent workers                                                      *)

\* the store before the first run
StoreAtStart ==
    [es |-> <<>>, searchable |-> <<>>, nextAuto |-> 1, files |-> <<>>,
     clock |-> 2]

\* the store after the files from the i-th on were processed one after the
\* other in the order of the list, nothing failing
RECURSIVE StoreAfter(_, _, _)
StoreAfter(paths, i, st) ==
    IF i > Len(paths) THEN st
    ELSE StoreAfter(paths, i + 1,
                    process_single_file(paths[i], skip_existing, index_to_es,
                                        FALSE, FALSE, malformed, st).st)

\* the keys of an index and the fields stored under each, the time of the
\* extraction left out
StoredFields(index) ==
    [k \in DOMAIN index |->
        [f \in DOMAIN index[k] \ {"extraction_timestamp"} |-> index[k][f]]]

\* the first run has returned and every file was a success
FirstRunAllWritten ==
    /\ RunReturned
    /\ runs_called = 1
    /\ taz_files # <<>>
    /\ \A j \in DOMAIN jobs : jobs[j].result.status = "success"

\* C21: whatever the order in which the workers complete, the store ends
\* with the same keys and the same fields under each key: those it holds
\* when the files are written one after the other in the order of the list.
C21_OrderIndependentStore ==
    (FirstRunAllWritten /\ index_to_es)
        => StoredFields(es) = StoredFields(StoreAfter(taz_files, 1, StoreAtStart).es)

\* the intermediate file process_taz_file writes for an archive
OutputFileOf(taz_path) ==
    <<"transformed", Get(taz_path.metadata, "annee", "unknown"),
      Get(taz_path.metadata, "date_seance", "N/A")>>

\* the worker of job j has returned after writing its intermediate file
WorkerWrote(j) ==
    /\ jobs[j].state \in {"finished", "collected", "dropped"}
    /\ jobs[j].result.status \in {"success", "failed"}
    /\ taz_files[j].root # NoRoot
    /\ OutputFileOf(taz_files[j]) \in DOMAIN files

\* the counters and the errors change by the update of one collected
\* result at a time
OneUpdateAtATime ==
    [stats' EXCEPT !.end_time = stats.end_time] # stats
        => \E i \in DOMAIN jobs :
               /\ jobs[i].state = "finished"
               /\ jobs'[i].state = "collected"
               /\ stats' = _update_stats(stats, jobs[i].result)

\* C22: in a parallel run the statistics change by one whole update at a
\* time, and a step of a worker changes nothing that the worker of another
\* file of the run has written: the intermediate file of a file whose worker
\* has returned stays as that worker left it.
C22_WorkersShareOnlyStatsAndStore ==
    [][(parallel /\ run_pc = "processing")
           => /\ OneUpdateAtATime
              /\ \A j \in DOMAIN jobs :
                     WorkerWrote(j)
                         => files'[OutputFileOf(taz_files[j])]
                                = files[OutputFileOf(taz_files[j])]]_vars

----------------------------------------------------------------------------
(* The intermediate files over repeated transforms                         *)

\* the intermediate files after one pass of process_directory over the
\* files from the i-th on, starting from the files fs
RECURSIVE FilesAfterPass(_, _, _)
FilesAfterPass(paths, i, fs) ==
    IF i > Len(paths) THEN fs
    ELSE FilesAfterPass(paths, i + 1,
             process_taz_file(fs, paths[i].root, paths[i].metadata,
                              "transformed", save_transform_file, 1).files)

\* the records of the i-th archive as its intermediate file keeps them
RecordsKept(i) ==
    LET docs == extract_sections(taz_files[i].root, taz_files[i].metadata, 1)
    IN  [k \in 1..Len(docs) |-> FilteredDoc(docs[k])]

\* the intermediate file of the i-th archive holds the records of the archive
HoldsRecordsOf(i) ==
    /\ OutputFileOf(taz_files[i]) \in DOMAIN files
    /\ \A k \in 1..Len(RecordsKept(i)) :
           \E n \in 1..Len(files[OutputFileOf(taz_files[i])]) :
               files[OutputFileOf(taz_files[i])][n] = RecordsKept(i)[k]

\* C23: after transform_year has run twice over a directory, every
\* intermediate file holds the list of records it held after one run, and the
\* file of every archive that has XML still holds the records of that archive,
\* whatever save_transform_file is.
C23_RepeatedTransformKeepsFiles ==
    (run_pc = "done" /\ runs_called = 2)
        => /\ files = FilesAfterPass(taz_files, 1, <<>>)
           /\ \A i \in DOMAIN taz_files :
                  taz_files[i].root # NoRoot => HoldsRecordsOf(i)

----------------------------------------------------------------------------
(* The order of the records                                                *)

\* no two Para elements of the tree carry the same identifier
DistinctIds ==
    \A i, j \in 1..Len(AllParas) :
        i # j => AllParas[i].attrib.idsyceron # AllParas[j].attrib.idsyceron

\* the place in the document of the Para element that carries the identifier
PlaceOf(para_id) ==
    CHOOSE n \in 1..Len(AllParas) : AllParas[n].attrib.idsyceron = para_id

\* C24: the records of the list extract_sections returns are in the order
\* of their Para nodes in the document, whatever the nesting of the sections
\* and the interleaving of SousSection1 and SousSection2.
C24_DocumentOrder ==
    (pc = "extracted" /\ DistinctIds)
        => \A i, j \in 1..Len(documents) :
               i < j => PlaceOf(documents[i]["para_id"])
                            < PlaceOf(documents[j]["para_id"])

\* the Para elements of the tree that carry the identifier
NodesWith(para_id) ==
    {n \in 1..Len(AllParas) : AllParas[n].attrib.idsyceron = para_id}

\* the records of the output that carry the identifier
RecordsWith(para_id) ==
    {k \in 1..Len(documents) : documents[k]["para_id"] = para_id}

\* C25: no Para node is collected twice: the output holds at most as many
\* records of an identifier as the tree holds Para nodes that carry it, also
\* when sections are nested in sections or in subsections.
C25_NoDoubleCounting ==
    pc = "extracted"
        => /\ ParaIdsOf(documents) \subseteq TreeIds
           /\ \A id \in TreeIds :
                  Cardinality(RecordsWith(id)) <= Cardinality(NodesWith(id))

\* a section with a subsection and a nested section, both with paragraphs
\* that are in the output
C25_Witness ==
    /\ pc = "extracted"
    /\ Len(documents) >= 2
    /\ \E section \in SectionsOfTree :
           /\ \E ss \in DOMAIN section.children :
                  /\ section.children[ss].tag \in {"SousSection1", "SousSection2"}
                  /\ IdParas(section.children[ss]) # <<>>
           /\ \E nested \in DOMAIN FindAll(section, "Section") :
                  IdParas(FindAll(section, "Section")[nested]) # <<>>

----------------------------------------------------------------------------
(* What a continuation leaves alone                                        *)

\* the nodes of q that open a run, in their order
FirstsOf(q) ==
    [k \in 1..Cardinality({j \in 1..Len(q) : RunStart(q, j)}) |->
        q[CHOOSE i \in 1..Len(q) : RunStart(q, i) /\ RunIndex(q, i) = k]]

\* the records of the section once the continuation nodes are taken out
WithoutContinuations ==
    _extract_paragraphs([TheSection EXCEPT !.children =
                            FindAllChildren(TheSection, "TitreStruct")
                                \o FirstsOf(IdParas(TheSection))],
                        SectionData(TheSection, metadata), clock)

\* the k-th record comes from a run of one node
NothingMergedInto(k) ==
    \E i \in 1..Len(IdParas(TheSection)) :
        RunOfOne(IdParas(TheSection), i) /\ RunIndex(IdParas(TheSection), i) = k

\* C26: the continuation nodes change nothing but the text of the record
\* they are merged into: with them or without them the section gives the same
\* number of records, with the same fields except the text of the merged
\* records, which only grows at its end.
C26_MergeChangesOnlyText ==
    pc = "extracted"
        => LET base == WithoutContinuations
           IN  /\ Len(documents) = Len(base)
               /\ \A k \in 1..Len(base) :
                      /\ DOMAIN documents[k] = DOMAIN base[k]
                      /\ \A f \in DOMAIN base[k] \ {"texte"} :
                             documents[k][f] = base[k][f]
                      /\ Len(documents[k]["texte"]) >= Len(base[k]["texte"])
                      /\ SubSeq(documents[k]["texte"], 1, Len(base[k]["texte"]))
                             = base[k]["texte"]
                      /\ NothingMergedInto(k)
                             => documents[k]["texte"] = base[k]["texte"]

\* a record of one node with text, then a record two nodes were merged into
C26_Witness ==
    /\ pc = "extracted"
    /\ Len(documents) = 2
    /\ Len(IdParas(TheSection)) = 3
    /\ RunOfOne(IdParas(TheSection), 1)
    /\ RunOfTwo(IdParas(TheSection), 2)
    /\ documents[1]["texte"] # <<>>
    /\ documents[2]["texte"] # WithoutContinuations[2]["texte"]

----------------------------------------------------------------------------
(* One echo per fragment                                                   *)

\* the text content of the node starts with the speaker name, in any case
EchoesNom(para, nom) ==
    Truthy(nom) /\ StartsWith(extract_text_recursive(para), nom, TRUE)

\* the text content of the node after the echo of the name: the name, the
\* period that may follow it, the whitespace around what is left
AfterEcho(para, nom) ==
    LET raw == extract_text_recursive(para)
        n == IF Len(raw) > Len(nom) /\ raw[Len(nom) + 1] = "."
             THEN Len(nom) + 1 ELSE Len(nom)
    IN  Strip(Drop(raw, n))

\* C27: of a fragment that starts with the name of the established speaker
\* only that echo is removed: the record of a new paragraph holds all the
\* text after the echo, and a continuation appends all the text after it.
C27_OneEchoRemoved ==
    pc = "extracted" =>
        LET q == IdParas(TheSection)
        IN  \A i \in 1..Len(q) :
                LET nom == EstablishedNom(q[i])
                    rec == documents[RunIndex(q, i)]
                IN  /\ (RunOfOne(q, i) /\ EchoesNom(q[i], nom))
                           => rec["texte"] = AfterEcho(q[i], nom)
                    /\ (RunOfTwo(q, i) /\ EchoesNom(q[i + 1], nom))
                           => Drop(rec["texte"],
                                   Len(StrippedFragment(q[i], nom)) + 1)
                                  = AfterEcho(q[i + 1], nom)

----------------------------------------------------------------------------
(* The last record of a container                                          *)

\* the two elements _extract_paragraphs is called on
FirstContainer ==
    IF HasSousSections(root.children[1])
    THEN FindAllChildren(root.children[1], "SousSection1")[1]
    ELSE root.children[1]
SecondContainer ==
    IF HasSousSections(root.children[1])
    THEN FindAllChildren(root.children[1], "SousSection2")[1]
    ELSE root.children[2]

\* the number of runs of nodes with one identifier in q
RunsOf(q) == Cardinality({j \in 1..Len(q) : RunStart(q, j)})

\* the stripped texts of the nodes of the run that node i of q opens, joined
\* by spaces
RECURSIVE RunText(_, _, _)
RunText(q, i, nom) ==
    StrippedFragment(q[i], nom)
        \o IF i + 1 <= Len(q) /\ ~RunStart(q, i + 1)
           THEN <<" ">> \o RunText(q, i + 1, nom)
           ELSE <<>>

\* the records from the given place of the output on are those of the runs
\* of the container, each with the text of the nodes of its run
RecordsOfRuns(container, offset) ==
    LET q == IdParas(container)
    IN  \A i \in 1..Len(q) :
            RunStart(q, i)
                => /\ documents[offset + RunIndex(q, i)]["para_id"]
                          = q[i].attrib.idsyceron
                   /\ documents[offset + RunIndex(q, i)]["texte"]
                          = RunText(q, i, EstablishedNom(q[i]))

\* C28: every container starts with no last record and the nodes without
\* identifier leave the last record alone: the output holds one record per
\* run of same-identifier nodes of each container, the nodes without
\* identifier set aside, with the text of the nodes of that run and of no
\* node of another container.
C28_LastRecordPerContainer ==
    pc = "extracted"
        => /\ Len(documents) = RunsOf(IdParas(FirstContainer))
                                   + RunsOf(IdParas(SecondContainer))
           /\ RecordsOfRuns(FirstContainer, 0)
           /\ RecordsOfRuns(SecondContainer, RunsOf(IdParas(FirstContainer)))

\* the first container ends with two nodes of one identifier around a node
\* without identifier, the second starts with a node of that identifier
C28_Witness ==
    /\ pc = "extracted"
    /\ Len(documents) = 2
    /\ LET a == FindAllChildren(FirstContainer, "Para")
           b == FindAllChildren(SecondContainer, "Para")
       IN  /\ Len(a) = 3 /\ Len(b) >= 1
           /\ a[1].attrib.idsyceron = "p1"
           /\ a[2].attrib.idsyceron = NoneStr
           /\ a[3].attrib.idsyceron = "p1"
           /\ b[1].attrib.idsyceron = "p1"
    /\ documents[1]["texte"] = <<"oui", " ", "non">>
    /\ documents[2]["para_id"] = "p1"

----------------------------------------------------------------------------
(* The year filter                                                         *)

\* the years the filter names
YearsNamed == {years[k] : k \in 1..Len(years)}

\* the discovered files whose year the filter names
FilesOfTheFilter ==
    {i \in DOMAIN base_dir : get_year_from_path(base_dir[i]) \in YearsNamed}

\* C29: a run with a year filter processes the discovered files whose year
\* is in the filter, and no other, each once: stats.total is their number,
\* whatever the filter list holds.
C29_FilterSelectsEachFileOnce ==
    (RunReturned /\ years # <<>>)
        => /\ {taz_files[j] : j \in DOMAIN taz_files}
                  = {base_dir[i] : i \in FilesOfTheFilter}
           /\ \A j, k \in DOMAIN taz_files :
                  j # k => taz_files[j] # taz_files[k]
           /\ stats.total = Cardinality(FilesOfTheFilter)

----------------------------------------------------------------------------
(* The number of documents of a run                                        *)

\* the number of records extract_sections gives for the j-th file
RecordsExtracted(j) ==
    Len(ExtractedSections(taz_files[j].root, taz_files[j].metadata, 1))

\* the jobs whose result was taken and is a success
Successes ==
    {j \in CollectedJobs : jobs[j].result.status = "success"}

\* the records extracted from the files of a set, in all
RECURSIVE SumExtracted(_)
SumExtracted(S) ==
    IF S = {} THEN 0
    ELSE LET j == CHOOSE x \in S : TRUE
         IN  RecordsExtracted(j) + SumExtracted(S \ {j})

\* C30: stats.documents_indexed is the number of records extracted from the
\* files whose outcome is success; the result of a success carries the
\* number of records extracted from its file, at least one, whatever the
\* store did with them and whether or not they were sent to it.
C30_DocumentsIndexedIsExtracted ==
    /\ stats.documents_indexed = SumExtracted(Successes)
    /\ \A j \in DOMAIN jobs :
           (jobs[j].state \in {"finished", "collected"}
                /\ jobs[j].result.status = "success")
               => /\ jobs[j].result.documents >= 1
                  /\ jobs[j].result.documents = RecordsExtracted(j)

\* a second run over two files already in the index, sent again and
\* rejected by the store: the index is as before and two records are counted
C30_Witness ==
    /\ RunReturned
    /\ runs_called = 2
    /\ index_to_es /\ ~skip_existing
    /\ Cardinality(Successes) = 2
    /\ Cardinality(DOMAIN es) = 2
    /\ stats.documents_indexed = 2

====
